---- MODULE Spec2Model ----
(***************************************************************************)
(* Selector-based anchoring engine of the annotator: text quote / text     *)
(* position selectors (src/libs/anchors.js), the resolution pipeline and   *)
(* the Highlighter (src/ui/highlighter.js), and range normalisation        *)
(* (BrowserRange / NormalizedRange in util.js).                            *)
(*                                                                         *)
(* Strings are sequences of one-character strings.  Character offsets are  *)
(* 0-based as in the JavaScript source; Slice(s, i, j) is s.slice(i, j).   *)
(***************************************************************************)
EXTENDS Integers, Sequences, FiniteSets, TLC

VARIABLES
    textContent,  \* root.textContent of the document the selectors are resolved against
    span,         \* <<start, end>>: where the selected text now is in textContent
    input,        \* the selector handed to fromTextPosition: [hasStart, start, hasEnd, end]
    target,       \* the selectors stored for the selection (annotation.target[..].selector)
    options,      \* options passed to toTextPosition: [hasHint, hint]
    result,       \* what the last resolution returned
    error,        \* the message of the error the last resolution threw, "" if none
    stage,        \* position of the capture / edit / resolve scenario
    origin,       \* where the stored quote selector came from: "captured" or "given"
    shift,        \* by how much an edit moved the selected text
    annotations,  \* the annotation objects' persisted part: annotations[a].target
    hl,           \* the Highlighter, its root element and the annotations' _local
    hl2,          \* a second Highlighter on a copy of the same document
    rootElement,  \* the root element a BrowserRange is normalised in
    browserRange, \* a BrowserRange object: its boundary points and its tainted flag
    normed,       \* what the last call on browserRange returned or threw
    editor,       \* the Editor widget: its annotation, its field, dfd and the promises load returned
    adapter,      \* the StorageAdapter's call in progress: the object, the hooks and store calls made
    authz,        \* a call of AclAuthzPolicy.permits: its arguments and what it returned
    deleted,      \* the annotations whose annotationDeleted hook has run, none drawn by the caller since
    viewer,       \* the Viewer widget: shown or hidden, its hide timer and the promises of the timer
    app           \* the App: _started, what start() has bound and the 'start' hooks it has run

qvars == <<textContent, span, input, target, options, result, error, stage, origin, shift>>

hvars == <<annotations, hl, hl2>>

nvars == <<rootElement, browserRange, normed>>

avars == <<editor, adapter, authz>>

uvars == <<deleted, viewer, app>>

vars == <<qvars, hvars, nvars, avars, uvars>>

----------------------------------------------------------------------------
(* Bounds of the model.                                                    *)

\* Longest document of the exhaustively enumerated short documents.
MaxLen == 4
\* Longest prefix / suffix of a selector that was not captured from the document.
MaxCtx == 1
\* Longest run of characters an edit inserts or removes.
MaxEdit == 2
\* Long documents have CONTEXT_LENGTH - 1 .. CONTEXT_LENGTH + PadExtra
\* characters of padding before a short tail.
PadExtra == 1
\* No draw starts once this many highlight spans were created.
MaxSpans == 3
\* options.chunkSize ranges over 1..MaxChunk.
MaxChunk == 2
\* Longest list of annotations given to drawAll.
MaxBatch == 2
\* Most promises the modules' hooks return for one event.
MaxHooks == 2

\* anchors.js:148
CONTEXT_LENGTH == 32

Alphabet == {"a", "b"}

----------------------------------------------------------------------------
(* JavaScript values and string primitives.                                *)

\* `undefined` where a string is expected (a selector without prefix / suffix).
Undefined == <<"undefined">>

\* `null` / a thrown error where a span is expected.
Null == <<-1, -1>>

Min(S) == CHOOSE x \in S : \A y \in S : x <= y
Max(S) == CHOOSE x \in S : \A y \in S : x >= y

Clamp(x, lo, hi) == IF x < lo THEN lo ELSE IF x > hi THEN hi ELSE x

\* s.slice(i, j) for 0 <= i, j
Slice(s, i, j) == SubSeq(s, Clamp(i, 0, Len(s)) + 1, Clamp(j, 0, Len(s)))

\* String.prototype.substr(start, length) for start >= 0
substr(s, start, length) ==
    IF start >= Len(s) \/ length <= 0 THEN <<>>
    ELSE SubSeq(s, start + 1, Min({Len(s), start + length}))

\* String.prototype.indexOf(pat, pos): the position is clamped to [0, len],
\* the empty pattern is found at the clamped position, -1 when not found.
indexOf(s, pat, pos) ==
    LET p     == Clamp(pos, 0, Len(s))
        cands == { k \in p..(Len(s) - Len(pat)) : SubSeq(s, k + 1, k + Len(pat)) = pat }
    IN  IF cands = {} THEN -1 ELSE Min(cands)

\* All strings over Alphabet of length 0..n
RECURSIVE Strings(_)
Strings(n) ==
    IF n = 0 THEN {<<>>}
    ELSE LET shorter == Strings(n - 1)
         IN  shorter \cup { Append(s, c) : s \in { t \in shorter : Len(t) = n - 1 }, c \in Alphabet }

Pad(n) == [i \in 1..n |-> "a"]

ShortDocs == Strings(MaxLen)

\* Documents long enough for the 32 character context window to be cut off.
LongDocs ==
    { Pad(n) \o t : n \in (CONTEXT_LENGTH - 1)..(CONTEXT_LENGTH + PadExtra),
                    t \in { <<"b">>, <<"b", "a">>, <<"a", "b">> } }

Docs == ShortDocs \cup LongDocs

----------------------------------------------------------------------------
(* Selectors.                                                              *)

TextPositionSelector(start, end) ==
    [type |-> "TextPositionSelector", start |-> start, end |-> end,
     exact |-> Undefined, prefix |-> Undefined, suffix |-> Undefined]

TextQuoteSelector(exact, prefix, suffix) ==
    [type |-> "TextQuoteSelector", start |-> -1, end |-> -1,
     exact |-> exact, prefix |-> prefix, suffix |-> suffix]

\* A selector as fromTextPosition reads it: start and end, each possibly
\* missing (undefined).
PositionInput(hasStart, start, hasEnd, end) ==
    [hasStart |-> hasStart, start |-> start, hasEnd |-> hasEnd, end |-> end]

NoPosition == PositionInput(FALSE, 0, FALSE, 0)

\* fromTextPosition, its checks of the selector: the message of the error it
\* throws, "" when it goes on.
fromTextPositionError(selector) ==
    IF ~selector.hasStart THEN "selector missing required property \"start\""
    ELSE IF selector.start < 0 THEN "property \"start\" must be a non-negative integer"
    ELSE IF ~selector.hasEnd THEN "selector missing required property \"end\""
    ELSE IF selector.end < 0 THEN "property \"end\" must be a non-negative integer"
    ELSE ""

\* fromTextPosition that keeps everything before start as the prefix
fromTextPosition_wholePrefix(content, start, end) ==
    TextQuoteSelector(substr(content, start, end - start),
                      substr(content, 0, start),
                      substr(content, end, Min({Len(content), end + CONTEXT_LENGTH}) - end))

\* fromTextPosition(root, selector): exact plus up to CONTEXT_LENGTH
\* characters of context on each side.  (start, end are given and >= 0.)
fromTextPosition(content, start, end) ==
    LET exact       == substr(content, start, end - start)
        prefixStart == Max({0, start - CONTEXT_LENGTH})
        prefix      == substr(content, prefixStart, start - prefixStart)
        suffixEnd   == Min({Len(content), end + CONTEXT_LENGTH})
        suffix      == substr(content, end, suffixEnd - end)
    IN  TextQuoteSelector(exact, prefix, suffix)

\* cursor with the prefix step leaving the cursor at the start of the prefix
\* (loc = result instead of loc = result + prefix.length).
cursor_atPrefixStart(content, selector, opts) ==
    LET loc0 == IF opts.hasHint THEN opts.hint ELSE 0
        r1   == IF selector.prefix # Undefined THEN indexOf(content, selector.prefix, loc0) ELSE -1
    IN  IF r1 > -1 THEN r1 ELSE loc0

\* cursor that drops options.hint and always starts at 0.
cursor_noHint(content, selector, opts) ==
    LET r1 == IF selector.prefix # Undefined THEN indexOf(content, selector.prefix, 0) ELSE -1
    IN  IF r1 > -1 THEN r1 + Len(selector.prefix) ELSE 0

\* cursor that searches the suffix also when the prefix was found.
cursor_suffixAlways(content, selector, opts) ==
    LET loc0        == IF opts.hasHint THEN opts.hint ELSE 0
        havePrefix  == selector.prefix # Undefined
        haveSuffix  == selector.suffix # Undefined
        r1          == IF havePrefix THEN indexOf(content, selector.prefix, loc0) ELSE -1
        loc1        == IF havePrefix /\ r1 > -1 THEN r1 + Len(selector.prefix) ELSE loc0
        r2          == IF haveSuffix
                       THEN indexOf(content, selector.suffix, loc1 + Len(selector.exact))
                       ELSE -1
    IN  IF haveSuffix /\ r2 > -1 THEN r2 - Len(selector.exact) ELSE loc1

\* The search cursor after the prefix / suffix steps of toTextPosition.
cursor(content, selector, opts) ==
    LET loc0        == IF opts.hasHint THEN opts.hint ELSE 0
        havePrefix  == selector.prefix # Undefined
        haveSuffix  == selector.suffix # Undefined
        r1          == IF havePrefix THEN indexOf(content, selector.prefix, loc0) ELSE -1
        foundPrefix == havePrefix /\ r1 > -1
        loc1        == IF foundPrefix THEN r1 + Len(selector.prefix) ELSE loc0
        r2          == IF haveSuffix /\ ~foundPrefix
                       THEN indexOf(content, selector.suffix, loc1 + Len(selector.exact))
                       ELSE -1
    IN  IF haveSuffix /\ ~foundPrefix /\ r2 > -1 THEN r2 - Len(selector.exact) ELSE loc1

\* toTextPosition whose end lies one character past the match
toTextPosition_endPastMatch(content, selector, opts) ==
    IF indexOf(content, selector.exact, cursor(content, selector, opts)) > -1
    THEN << indexOf(content, selector.exact, cursor(content, selector, opts)),
            indexOf(content, selector.exact, cursor(content, selector, opts))
                + Len(selector.exact) + 1 >>
    ELSE Null

\* toTextPosition(root, selector, options): <<start, end>> or Null.
toTextPosition(content, selector, opts) ==
    LET r == indexOf(content, selector.exact, cursor(content, selector, opts))
    IN  IF r > -1 THEN <<r, r + Len(selector.exact)>> ELSE Null


----------------------------------------------------------------------------
(* The document.  The root element is the sequence of its text nodes in    *)
(* document order; a text node carries the chain of elements between the   *)
(* root and itself, outermost first.  Highlight <span>s are numbered 1, 2, *)
(* .. in order of creation; elements of the page itself are <= 0.          *)

Text(value, parents) == [nodeValue |-> value, parents |-> parents]

\* root.textContent
RECURSIVE textContentOf(_)
textContentOf(element) ==
    IF element = <<>> THEN <<>>
    ELSE Head(element).nodeValue \o textContentOf(Tail(element))

\* number of characters in the first k text nodes
RECURSIVE lengthUpTo(_, _)
lengthUpTo(element, k) ==
    IF k = 0 THEN 0 ELSE lengthUpTo(element, k - 1) + Len(element[k].nodeValue)

\* dom-seek, seek(iter, where) as textPosition.toRange uses it: the iterator
\* stands before text node `from`; nodes are consumed until `where`
\* characters are counted, then the iterator is put before the text node that
\* holds the offset: the next node at a node boundary, the last node at the
\* end of the document.  node = 0 is the RangeError of running off the end.
seek(element, where, from) ==
    LET N     == Len(element)
        stops == { j \in (from - 1)..N : lengthUpTo(element, j) >= where }
    IN  IF stops = {} \/ N = 0 THEN [node |-> 0, offset |-> 0]
        ELSE LET j == Min(stops)
             IN  IF j < N /\ lengthUpTo(element, j) = where
                 THEN [node |-> j + 1, offset |-> 0]
                 ELSE [node |-> j, offset |-> where - lengthUpTo(element, j - 1)]

\* A DOM Range over text nodes; ok = FALSE stands for a thrown error with
\* the message `error`.
Thrown(message) == [ok |-> FALSE, error |-> message, startContainer |-> 0, startOffset |-> 0,
                    endContainer |-> 0, endOffset |-> 0]

\* No range and nothing thrown: the selector was not tried.
NoRange == Thrown("")

\* range.setStart(startNode, startOffset); range.setEnd(endNode, endOffset)
setStartEnd(s, e) ==
    IF e.node = 0 THEN Thrown("RangeError")
    ELSE [ok |-> TRUE, error |-> "", startContainer |-> s.node, startOffset |-> s.offset,
          endContainer |-> e.node, endOffset |-> e.offset]

\* the second seek of toRange, from the start node on
seekEnd(element, end, s) ==
    IF s.node = 0 THEN Thrown("RangeError") ELSE setStartEnd(s, seek(element, end, s.node))

\* textPosition.toRange(root, {start, end}), called by TextPositionAnchor.toRange
textPositionToRange(element, start, end) == seekEnd(element, end, seek(element, start, 1))

\* character offsets of a range's boundary points in root.textContent
rangeStart(element, r) == lengthUpTo(element, r.startContainer - 1) + r.startOffset
rangeEnd(element, r) == lengthUpTo(element, r.endContainer - 1) + r.endOffset

\* Range.prototype.toString()
rangeToString(element, r) ==
    Slice(textContentOf(element), rangeStart(element, r), rangeEnd(element, r))

\* toRange of the quote module: null, or textPosition.toRange of the position
positionToRange(element, position) ==
    IF position = Null THEN Thrown("Quote not found")
    ELSE textPositionToRange(element, position[1], position[2])

\* TextQuoteAnchor.toRange(options): textQuoteToRange, 'Quote not found' on null
textQuoteToRange(element, selector, opts) ==
    positionToRange(element, toTextPosition(textContentOf(element), selector, opts))

----------------------------------------------------------------------------
(* The resolution pipeline.                                                *)

\* An annotation target and the annotation object's persisted part.
Target(selectors) == [hasSelector |-> TRUE, selector |-> selectors]

\* The selector list the pipeline reads: the one of the last target that has one.
selectorsOf(annotation) ==
    LET withSel == { i \in 1..Len(annotation.target) : annotation.target[i].hasSelector }
    IN  IF withSel = {} THEN <<>> ELSE annotation.target[Max(withSel)].selector

\* The selector the switch leaves in `position` / `quote`: index, 0 for null.
pick(selectors, type) ==
    LET ofType == { i \in 1..Len(selectors) : selectors[i].type = type }
    IN  IF ofType = {} THEN 0 ELSE Max(ofType)

\* maybeAssertQuote that accepts every range.
maybeAssertQuote_noCheck(element, selectors, r) == TRUE

\* maybeAssertQuote(r): FALSE stands for the thrown 'quote mismatch'.
maybeAssertQuote(element, selectors, r) ==
    LET q == pick(selectors, "TextQuoteSelector")
    IN  ~(q # 0 /\ selectors[q].exact # Undefined
              /\ rangeToString(element, r) # selectors[q].exact)

\* querySelector(TextPositionAnchor, rootElement, position), if (position)
queryPosition(element, selectors, p) ==
    IF p = 0 THEN NoRange
    ELSE textPositionToRange(element, selectors[p].start, selectors[p].end)

\* querySelector(TextQuoteAnchor, rootElement, quote, options), if (quote);
\* options is {}: no hint.  A quote without exact throws in toTextPosition.
queryQuote(element, selectors, q) ==
    IF q = 0 THEN NoRange
    ELSE IF selectors[q].exact = Undefined
    THEN Thrown("selector missing required property \"exact\"")
    ELSE textQuoteToRange(element, selectors[q], [hasHint |-> FALSE, hint |-> 0])

\* The catch of the quote's try block passing the error on to the caller.
orUnableToAnchor_rethrow(r) == r

\* The catch of the quote's try block (or no quote at all) and the final
\* throw: whatever was thrown, the caller gets 'unable to anchor'.
orUnableToAnchor(r) == IF r.ok THEN r ELSE Thrown("unable to anchor")

\* The two try blocks with a 'quote mismatch' that is not caught.
tryInOrder_throwMismatch(element, selectors, byPos) ==
    IF byPos.ok
    THEN IF maybeAssertQuote(element, selectors, byPos) THEN byPos ELSE Thrown("quote mismatch")
    ELSE orUnableToAnchor(queryQuote(element, selectors, pick(selectors, "TextQuoteSelector")))

\* The two try blocks with the quote tried before the position.
tryInOrder_quoteFirst(element, selectors, byPos) ==
    IF queryQuote(element, selectors, pick(selectors, "TextQuoteSelector")).ok
    THEN queryQuote(element, selectors, pick(selectors, "TextQuoteSelector"))
    ELSE IF byPos.ok /\ maybeAssertQuote(element, selectors, byPos) THEN byPos
    ELSE Thrown("unable to anchor")

\* The two try blocks: the position's range if it resolved and passed
\* maybeAssertQuote, else the quote's range, else 'unable to anchor'.
tryInOrder(element, selectors, byPos) ==
    IF byPos.ok /\ maybeAssertQuote(element, selectors, byPos) THEN byPos
    ELSE orUnableToAnchor(queryQuote(element, selectors, pick(selectors, "TextQuoteSelector")))

\* selectorsToRange on the selector list it read from the annotation
anchorSelectors(element, selectors) ==
    tryInOrder(element, selectors,
               queryPosition(element, selectors, pick(selectors, "TextPositionSelector")))

\* selectorsToRange(annotation, rootElement): the Range, or the thrown
\* 'unable to anchor'.
selectorsToRange(annotation, element) == anchorSelectors(element, selectorsOf(annotation))

----------------------------------------------------------------------------
(* Range normalisation (BrowserRange.normalize, NormalizedRange.textNodes). *)

\* splitText that loses the character at the split point
splitText_dropsChar(element, k, offset) ==
    SubSeq(element, 1, k - 1)
    \o << Text(SubSeq(element[k].nodeValue, 1, offset), element[k].parents),
          Text(SubSeq(element[k].nodeValue, offset + 2, Len(element[k].nodeValue)),
               element[k].parents) >>
    \o SubSeq(element, k + 1, Len(element))

\* Text.splitText(offset): node k keeps the first `offset` characters, a new
\* text node with the rest follows it under the same parent.
splitText(element, k, offset) ==
    LET n == element[k]
    IN  SubSeq(element, 1, k - 1)
        \o << Text(SubSeq(n.nodeValue, 1, offset), n.parents),
              Text(SubSeq(n.nodeValue, offset + 1, Len(n.nodeValue)), n.parents) >>
        \o SubSeq(element, k + 1, Len(element))

IsPrefix(s, t) == Len(s) <= Len(t) /\ SubSeq(t, 1, Len(s)) = s

\* Node.nextSibling of text node k: the index of a text node, or 0 when the
\* next sibling is an element or there is none.
nextSibling(element, k) ==
    IF k < Len(element) /\ element[k + 1].parents = element[k].parents THEN k + 1 ELSE 0

\* BrowserRange.normalize for a range whose containers are text nodes:
\* [ok, element, start, end]; ok = FALSE is the TypeError of reading
\* nodeValue of a missing node.
normalize(element, r) ==
    LET sc     == r.startContainer
        so     == r.startOffset
        eo     == r.endOffset
        splitS == so > 0 /\ Len(element[sc].nodeValue) > so
        el1    == IF splitS THEN splitText(element, sc, so) ELSE element
        start  == IF so > 0
                  THEN IF splitS THEN sc + 1 ELSE nextSibling(element, sc)
                  ELSE sc
        \* r.end is the node object it was: its index moves when an earlier node is split
        ec     == IF splitS /\ r.endContainer > sc THEN r.endContainer + 1
                  ELSE r.endContainer
    IN  IF r.startContainer = r.endContainer
        THEN IF start = 0 THEN [ok |-> FALSE, element |-> element, start |-> 0, end |-> 0]
             ELSE [ok |-> TRUE,
                   element |-> IF Len(el1[start].nodeValue) > eo - so
                               THEN splitText(el1, start, eo - so) ELSE el1,
                   start |-> start, end |-> start]
        ELSE [ok |-> TRUE,
              element |-> IF Len(el1[ec].nodeValue) > eo
                          THEN splitText(el1, ec, eo) ELSE el1,
              start |-> start, end |-> ec]

\* new BrowserRange(obj): the boundary points of obj, not tainted
BrowserRange(startContainer, startOffset, endContainer, endOffset) ==
    [startContainer |-> startContainer, startOffset |-> startOffset,
     endContainer |-> endContainer, endOffset |-> endOffset, tainted |-> FALSE]

\* What a call on a BrowserRange gave: `returned` is the kind of value it
\* returned ("none" when it threw or was not called), `thrown` the error.
NoResult == [returned |-> "none", thrown |-> "", start |-> 0, end |-> 0]

\* BrowserRange.normalize(root), lines 68-106, on a range that is not
\* tainted: the range is tainted, nr is what the splitting gave.
taintAndReturn(b, nr) ==
    [element |-> nr.element,
     range   |-> [b EXCEPT !.tainted = TRUE],
     result  |-> IF nr.ok
                 THEN [returned |-> "NormalizedRange", thrown |-> "",
                       start |-> nr.start, end |-> nr.end]
                 ELSE [NoResult EXCEPT !.thrown = "TypeError"]]

\* BrowserRange.normalize(root) on the object b: a tainted range logs with
\* console.error and returns false.
normalizeOnce(element, b) ==
    IF b.tainted
    THEN [element |-> element, range |-> b, result |-> [NoResult EXCEPT !.returned = "false"]]
    ELSE taintAndReturn(b, normalize(element, b))

\* BrowserRange.serialize(root): this.normalize(root).serialize(root, ..);
\* n is what normalize gave.
serializeNormalized(n) ==
    IF n.result.returned = "false" THEN [n EXCEPT !.result = [NoResult EXCEPT !.thrown = "TypeError"]]
    ELSE IF n.result.thrown # "" THEN n
    ELSE [n EXCEPT !.result.returned = "SerializedRange"]

\* BrowserRange.serialize(root, ignoreSelector)
serialize(element, b) == serializeNormalized(normalizeOnce(element, b))

\* No BrowserRange in play.
NormalizeIdle ==
    /\ rootElement = <<>>
    /\ browserRange = BrowserRange(0, 0, 0, 0)
    /\ normed = NoResult

----------------------------------------------------------------------------
(* The Editor widget: load, submit, cancel.                                *)

\* An annotation object as the editor sees it: its text, if it has one.
Annotation(hasText, text) == [hasText |-> hasText, text |-> text]

\* new Editor(options): this.annotation = {}, dfd undefined (0), the element
\* of the template, which has the class annotator--hide.  promises are the
\* promises load has returned, in order, each pending, resolved or rejected.
NewEditor ==
    [annotation |-> Annotation(FALSE, ""), textarea |-> "", dfd |-> 0,
     promises |-> <<>>, hide |-> TRUE]

\* Editor.load(annotation, position): the default field loads
\* annotation.text || '', a new pending promise is returned, dfd holds its
\* resolve and reject, the editor is shown.
load(e, annotation) ==
    [e EXCEPT !.annotation = annotation,
              !.textarea = IF annotation.hasText THEN annotation.text ELSE "",
              !.promises = Append(@, "pending"),
              !.dfd = Len(e.promises) + 1,
              !.hide = FALSE]

\* dfd.resolve() / dfd.reject(..): settles the promise dfd belongs to if
\* there is a dfd and the promise is pending; a settled promise stays as it is.
settle(e, how) ==
    IF e.dfd # 0 /\ e.promises[e.dfd] = "pending"
    THEN [e EXCEPT !.promises[e.dfd] = how]
    ELSE e

\* Editor.submit(): the field writes its value to annotation.text, dfd is
\* resolved, the editor is hidden.
submit(e) ==
    [settle(e, "resolved") EXCEPT !.annotation = Annotation(TRUE, e.textarea), !.hide = TRUE]

\* Editor.cancel(): dfd is rejected, the editor is hidden.
cancel(e) == [settle(e, "rejected") EXCEPT !.hide = TRUE]

EditorIdle == editor = NewEditor

----------------------------------------------------------------------------
(* StorageAdapter: create, update, delete.                                 *)

\* An annotation object as the adapter sees it: its id ("undefined" and
\* "null" stand for these two values), its text, and whether it has _local.
StoredObject(id, text, local) == [id |-> id, text |-> text, local |-> local]

NoObject == StoredObject("undefined", "", FALSE)

\* What a store function returns: the properties of the stored annotation.
Returned(id, text) == [id |-> id, text |-> text]

\* No call of the adapter in progress.  A call is the function called, the
\* object it was given (arg) and that object as it is now (obj), the hooks
\* run and store functions called so far in order (log), the promises the
\* 'before' hooks returned (hooks) and how many of them have fulfilled, the
\* copy handed to the store (sent) and whether that copy has _local, what the
\* store returned (ret), and the error the call threw.
NoCall ==
    [func |-> "none", arg |-> NoObject, obj |-> NoObject, after |-> "", stage |-> "idle",
     log |-> <<>>, hooks |-> 0, fulfilled |-> 0, sent |-> NoObject,
     ret |-> Returned("undefined", ""), thrown |-> ""]

\* throw new TypeError("annotation must have an id for ..()")
threw(obj, func) ==
    [NoCall EXCEPT !.func = func, !.arg = obj, !.obj = obj, !.stage = "thrown",
                   !.thrown = "TypeError"]

\* _cycle(obj, storeFunc, beforeEvent, afterEvent) up to its first then():
\* the 'before' hook is run and its promise is pending.
cycle(obj, storeFunc, beforeEvent, afterEvent) ==
    [NoCall EXCEPT !.func = storeFunc, !.arg = obj, !.obj = obj, !.after = afterEvent,
                   !.stage = "before", !.log = << beforeEvent >>]

\* StorageAdapter.create(obj)
create(obj) == cycle(obj, "create", "beforeAnnotationCreated", "annotationCreated")

\* update without the test of the id
update_noIdCheck(obj) == cycle(obj, "update", "beforeAnnotationUpdated", "annotationUpdated")

\* StorageAdapter.update(obj)
update(obj) ==
    IF obj.id = "undefined" \/ obj.id = "null" THEN threw(obj, "update")
    ELSE cycle(obj, "update", "beforeAnnotationUpdated", "annotationUpdated")

\* StorageAdapter.delete(obj)
delete(obj) ==
    IF obj.id = "undefined" \/ obj.id = "null" THEN threw(obj, "delete")
    ELSE cycle(obj, "delete", "beforeAnnotationDeleted", "annotationDeleted")

\* App.runHook(name, args) as _cycle calls it: n of the modules' hooks
\* returned a promise that is pending; Promise.all waits for them.
runHook(c, n) == IF c.stage = "before" THEN [c EXCEPT !.hooks = n] ELSE c

\* One of the promises of the 'before' hooks fulfils.
hookFulfilled(c) == [c EXCEPT !.fulfilled = @ + 1]

\* a runHook that fulfils with the first of its promises (Promise.race)
allFulfilled_first(c) == c.fulfilled >= 1 \/ c.hooks = 0

\* Promise.all(results) fulfils: each of the promises has fulfilled.
allFulfilled(c) == c.fulfilled = c.hooks

\* a first then() of _cycle that hands obj itself to the store
callStore_keepsLocal(c) ==
    [c EXCEPT !.sent = c.obj, !.log = Append(@, c.func), !.stage = "store"]

\* The first then() of _cycle: a deep copy of obj without _local is handed
\* to the store function.
callStore(c) ==
    [c EXCEPT !.sent = [c.obj EXCEPT !.local = FALSE], !.log = Append(@, c.func),
              !.stage = "store"]

\* The second then() of _cycle: every property of obj but _local is deleted,
\* the store's return value is assigned to obj, the 'after' hook is run.
storeReturned(c, ret) ==
    [c EXCEPT !.obj = StoredObject(ret.id, ret.text, c.obj.local), !.ret = ret,
              !.log = Append(@, c.after), !.stage = "done"]

\* A promise of the chain rejects: the promise _cycle returned rejects.
rejected(c) == [c EXCEPT !.stage = "rejected"]

AdapterIdle == adapter = NoCall

----------------------------------------------------------------------------
(* AclAuthzPolicy.permits.                                                 *)

\* The values of user ids: "undefined" and "null" stand for these two
\* values, "" is the empty string.
Truthy(v) == v \notin {"undefined", "null", ""}

\* permissions[action]: undefined, null, or an array of user ids
Tokens(kind, list) == [kind |-> kind, list |-> list]

\* context: permissions (set: an object, with its tokens per action; not
\* set: undefined or null) and user
Context(set, tokens, user) == [permissions |-> [set |-> set, tokens |-> tokens], user |-> user]

\* AclAuthzPolicy.authorizedUserId(identity)
authorizedUserId(identity) == identity

\* The loop over the tokens: the user id is one of them
matches(userid, tokens) == \E i \in 1..Len(tokens.list) : userid = tokens.list[i]

\* permits that takes an empty token list as no restriction
permits_emptyPermitsAll(action, context, identity) ==
    IF context.permissions.set
    THEN IF context.permissions.tokens[action].kind \in {"undefined", "null"} THEN TRUE
         ELSE \/ context.permissions.tokens[action].list = <<>>
              \/ matches(authorizedUserId(identity), context.permissions.tokens[action])
    ELSE IF Truthy(context.user) THEN authorizedUserId(identity) = context.user
    ELSE TRUE

\* AclAuthzPolicy.permits(action, context, identity)
permits(action, context, identity) ==
    IF context.permissions.set
    THEN IF context.permissions.tokens[action].kind \in {"undefined", "null"} THEN TRUE
         ELSE matches(authorizedUserId(identity), context.permissions.tokens[action])
    ELSE IF Truthy(context.user) THEN authorizedUserId(identity) = context.user
    ELSE TRUE

\* The actions permissions are asked for (the viewer's permitEdit, permitDelete).
Actions == {"update", "delete"}

\* A call of permits with its arguments, made or not yet made.
Call(action, context, identity) ==
    [called |-> FALSE, action |-> action, context |-> context, identity |-> identity,
     returned |-> FALSE]

NoPermits ==
    Call("update", Context(FALSE, [a \in Actions |-> Tokens("undefined", <<>>)], "undefined"),
         "undefined")

AuthzIdle == authz = NoPermits

\* None of the application's components in play.
AppIdle == EditorIdle /\ AdapterIdle /\ AuthzIdle

----------------------------------------------------------------------------
(* The Viewer widget and its hide timer.                                   *)

\* new Viewer(options): the element of the template, which has the class
\* annotator--hide; hideTimer, hideTimerPromise and hideTimerActivity null
\* (0, 0, "null"); mouseDown false.  promises are the promises
\* _startHideTimer has created, in order: for each the state of the promise
\* whose resolve and reject it carries (inner), and the callbacks chained on
\* it with then() that wait (thens) and that have run (ran).
NewViewer ==
    [shown |-> FALSE, hideTimer |-> 0, hideTimerPromise |-> 0, hideTimerActivity |-> "null",
     mouseDown |-> FALSE, promises |-> <<>>]

----------------------------------------------------------------------------
(* The App and its modules.                                                *)

\* A module as include() pushes it on app.modules: whether it has a 'start'
\* and a 'destroy' hook, and how many times each has run.
Module(hasStart, hasDestroy) ==
    [hasStart |-> hasStart, hasDestroy |-> hasDestroy, starts |-> 0, destroys |-> 0]

\* new App(): _started false, the modules acl, simple and noop included (none
\* has a 'start' or 'destroy' hook), nothing bound.  authz, ident and
\* annotations count the assignments of app.authz, app.ident and
\* app.annotations; calls counts the calls of start() and destroy(); returned
\* is what the last start() returned.
NewApp ==
    [started |-> FALSE,
     modules |-> << Module(FALSE, FALSE), Module(FALSE, FALSE), Module(FALSE, FALSE) >>,
     authz |-> 0, ident |-> 0, annotations |-> 0, calls |-> 0, returned |-> "none"]

\* Neither the viewer nor the app in play, and nothing deleted.
UiIdle == deleted = {} /\ viewer = NewViewer /\ app = NewApp

----------------------------------------------------------------------------
\* NormalizedRange.textNodes(): indices of the text nodes from start to end.
\* (indexOf gives -1 for a start that is no text node, and slice(-1, ..)
\* then starts at the last text node.)
textNodes(nr) ==
    LET from == IF nr.start = 0 THEN Len(nr.element) ELSE nr.start
    IN  [i \in 1..(IF nr.end >= from THEN nr.end - from + 1 ELSE 0) |-> from + i - 1]

\* /^\s*$/
white(value) == \A i \in 1..Len(value) : value[i] = " "

\* highlightRange that wraps the white-space text nodes too
RECURSIVE highlightRange_wrapsWhite(_, _, _)
highlightRange_wrapsWhite(element, nodes, created) ==
    IF nodes = <<>> THEN [element |-> element, results |-> <<>>]
    ELSE LET k    == Head(nodes)
             new  == created + 1
             rest == highlightRange_wrapsWhite(
                         [element EXCEPT ![k].parents = Append(element[k].parents, new)],
                         Tail(nodes), new)
         IN  [element |-> rest.element, results |-> <<new>> \o rest.results]

\* highlightRange(normedRange, cssClass): wraps every text node of the range
\* that is not white space in a new <span>; `created` spans exist already.
\* Returns the document and the new spans in the order of creation.
RECURSIVE highlightRange(_, _, _)
highlightRange(element, nodes, created) ==
    IF nodes = <<>> THEN [element |-> element, results |-> <<>>]
    ELSE LET k    == Head(nodes)
             node == element[k]
         IN  IF white(node.nodeValue) THEN highlightRange(element, Tail(nodes), created)
             ELSE LET new  == created + 1
                      rest == highlightRange(
                                  [element EXCEPT ![k].parents = Append(node.parents, new)],
                                  Tail(nodes), new)
                  IN  [element |-> rest.element, results |-> <<new>> \o rest.results]

----------------------------------------------------------------------------
(* The Highlighter.  A highlighter state h is a record:                    *)
(*   element    the root element (its text nodes, see above)               *)
(*   spans      the highlight <span> elements created so far; span i is    *)
(*              spans[i], and spans[i].annotation is hl.annotation         *)
(*   local      annotation._local of every annotation object               *)
(*   chunkSize  options.chunkSize                                          *)
(*   batch      the drawAll call in flight: its annList, its highlights    *)
(*              and the state of the promise it returned; list is the list *)
(*              it was called with, attempted the annotations it called    *)
(*              draw on, in order                                          *)
(*   thrown     the error the last call threw / rejected with, "" if none  *)

Anns == {1, 2}

NoLocal == [exists |-> FALSE, ranges |-> <<>>, hasHighlights |-> FALSE, highlights |-> <<>>]

NoBatch == [status |-> "idle", annList |-> <<>>, highlights |-> <<>>,
            list |-> <<>>, attempted |-> <<>>]

Highlighter(element, chunkSize) ==
    [element |-> element, spans |-> <<>>, local |-> [a \in Anns |-> NoLocal],
     chunkSize |-> chunkSize, batch |-> NoBatch, thrown |-> ""]

\* The spans attached to the document.
attached(element) ==
    { e \in UNION { { element[k].parents[i] : i \in 1..Len(element[k].parents) } :
                    k \in 1..Len(element) } : e > 0 }

\* Removing span s with its children still in it
unwrap_dropsChildren(element, s) ==
    [k \in 1..Len(element) |->
        IF \E i \in 1..Len(element[k].parents) : element[k].parents[i] = s
        THEN [element[k] EXCEPT !.nodeValue = <<>>,
                                !.parents = SelectSeq(element[k].parents, LAMBDA e : e # s)]
        ELSE element[k]]

\* Unwrap span s: its children take its place under its parent, the span is removed.
unwrap(element, s) ==
    [k \in 1..Len(element) |->
        [element[k] EXCEPT !.parents = SelectSeq(element[k].parents, LAMBDA e : e # s)]]

RECURSIVE unwrapAll(_, _)
unwrapAll(element, hls) ==
    IF hls = <<>> THEN element
    ELSE unwrapAll(unwrap(element, Head(hls)), Tail(hls))

\* draw, lines 204-226: the new spans are pushed on annotation._local.highlights
\* (created empty when missing) and every span of the list gets hl.annotation.
pushHighlights(h, a, hr) ==
    [h EXCEPT !.element = hr.element,
              !.spans = h.spans \o [i \in 1..Len(hr.results) |-> [annotation |-> a]],
              !.local[a].hasHighlights = TRUE,
              !.local[a].highlights = h.local[a].highlights \o hr.results,
              !.thrown = ""]

\* draw, lines 197-212: a range that normalize could not handle throws, the
\* others are highlighted.
highlightNormed(h, a, nr) ==
    IF ~nr.ok THEN [h EXCEPT !.thrown = "TypeError"]
    ELSE pushHighlights(h, a, highlightRange(nr.element, textNodes(nr), Len(h.spans)))

\* draw that creates annotation._local before it anchors
drawRange_localFirst(h, a, range) ==
    IF ~range.ok THEN [h EXCEPT !.thrown = range.error, !.local[a].exists = TRUE]
    ELSE highlightNormed(
             [h EXCEPT !.local[a].exists = TRUE,
                       !.local[a].ranges = << <<rangeStart(h.element, range),
                                                rangeEnd(h.element, range)>> >>],
             a, normalize(h.element, range))

\* draw, lines 186-198: 'unable to anchor' leaves everything as it was; else
\* annotation._local.ranges = [range] (kept as character offsets) and the
\* range is normalised.
drawRange(h, a, range) ==
    IF ~range.ok THEN [h EXCEPT !.thrown = range.error]
    ELSE highlightNormed(
             [h EXCEPT !.local[a].exists = TRUE,
                       !.local[a].ranges = << <<rangeStart(h.element, range),
                                                rangeEnd(h.element, range)>> >>],
             a, normalize(h.element, range))

\* Highlighter.draw(annotation)
draw(h, anns, a) == drawRange(h, a, selectorsToRange(anns[a], h.element))

\* undraw without the final `delete annotation._local.highlights`
undraw_keepList(h, a) ==
    IF ~h.local[a].hasHighlights THEN [h EXCEPT !.thrown = ""]
    ELSE [h EXCEPT !.element = unwrapAll(h.element, h.local[a].highlights),
                   !.thrown = ""]

\* Highlighter.undraw(annotation)
undraw(h, a) ==
    IF ~h.local[a].hasHighlights THEN [h EXCEPT !.thrown = ""]
    ELSE [h EXCEPT !.element = unwrapAll(h.element, h.local[a].highlights),
                   !.local[a].hasHighlights = FALSE,
                   !.local[a].highlights = <<>>,
                   !.thrown = ""]

\* redraw without the undraw
redraw_drawOnly(h, anns, a) == draw(h, anns, a)

\* Highlighter.redraw(annotation)
redraw(h, anns, a) == draw(undraw(h, a), anns, a)

\* destroy that unwraps only the outermost highlight span around a text node
destroy_outermostOnly(h) ==
    [h EXCEPT !.element = [k \in 1..Len(h.element) |->
                              [h.element[k] EXCEPT !.parents =
                                  IF \E i \in 1..Len(h.element[k].parents) : h.element[k].parents[i] > 0
                                  THEN unwrap(<<h.element[k]>>,
                                              h.element[k].parents[
                                                  Min({ i \in 1..Len(h.element[k].parents) :
                                                          h.element[k].parents[i] > 0 })])[1].parents
                                  ELSE h.element[k].parents]],
              !.thrown = ""]

\* Highlighter.destroy()
destroy(h) ==
    [h EXCEPT !.element = [k \in 1..Len(h.element) |->
                              [h.element[k] EXCEPT !.parents = SelectSeq(h.element[k].parents, LAMBDA e : e <= 0)]],
              !.thrown = ""]

\* The for loop of loader over the chunk `now`: each annotation is drawn and
\* its highlights pushed; a rejected draw ends the loop and rejects the loader.
RECURSIVE drawChunk(_, _, _)

\* loader, lines 161-164: d is the highlighter after `await this.draw(annotation)`
pushResult(d, anns, now) ==
    IF d.thrown # ""
    THEN [d EXCEPT !.batch.status = "rejected",
                   !.batch.attempted = Append(d.batch.attempted, Head(now))]
    ELSE drawChunk([d EXCEPT !.batch.highlights = d.batch.highlights \o d.local[Head(now)].highlights,
                             !.batch.attempted = Append(d.batch.attempted, Head(now))],
                   anns, Tail(now))

drawChunk(h, anns, now) ==
    IF now = <<>> THEN h ELSE pushResult(draw(h, anns, Head(now)), anns, now)

\* loader without the recursive call: it fulfils after its first chunk
awaitRest_stopAfterChunk(d) ==
    IF d.batch.status = "rejected" THEN d
    ELSE [d EXCEPT !.batch.status = "fulfilled"]

\* loader, lines 167-170: the promise rejects, waits for the timer when
\* annotations are left, or fulfils.
awaitRest(d) ==
    IF d.batch.status = "rejected" THEN d
    ELSE [d EXCEPT !.batch.status = IF Len(d.batch.annList) > 0 THEN "waiting" ELSE "fulfilled"]

\* splice that takes the whole list as one chunk
chunkLength_wholeList(h) == Len(h.batch.annList)

\* annList.splice(0, chunkSize): how many annotations the chunk takes
chunkLength(h) ==
    IF h.chunkSize < Len(h.batch.annList) THEN h.chunkSize ELSE Len(h.batch.annList)

\* loader(annList): splice off a chunk, draw it, and wait for the timer when
\* annotations are left.
loader(h, anns) ==
    awaitRest(drawChunk(
        [h EXCEPT !.batch.annList = SubSeq(h.batch.annList, chunkLength(h) + 1, Len(h.batch.annList)),
                  !.batch.status = "running"],
        anns, SubSeq(h.batch.annList, 1, chunkLength(h))))

\* Highlighter.drawAll(annotations) up to its first timer
drawAll(h, anns, list) ==
    loader([h EXCEPT !.batch = [status |-> "running", annList |-> list, highlights |-> <<>>,
                                list |-> list, attempted |-> <<>>]],
           anns)

----------------------------------------------------------------------------
(* Capture / edit / resolve scenario on the text of one document.          *)

NoOptions == [hasHint |-> FALSE, hint |-> 0]

Spans(content) ==
    { <<s, e>> : s \in 0..Len(content), e \in 0..Len(content) } \cap
    { se \in (0..Len(content)) \X (0..Len(content)) : se[1] <= se[2] /\ se[2] - se[1] <= MaxLen }

\* The root element of a document that is one run of text.
rootOf(content) == IF content = <<>> THEN <<>> ELSE << Text(content, <<>>) >>

\* The character span of a range, Null for a thrown error.
charSpan(element, r) ==
    IF r.ok THEN <<rangeStart(element, r), rangeEnd(element, r)>> ELSE Null

\* The stored quote selector.
quoteOf(selectors) == selectors[pick(selectors, "TextQuoteSelector")]

IdleHighlighter == Highlighter(<<>>, 1)

QuoteInit ==
    /\ textContent \in Docs
    /\ span \in Spans(textContent)
    /\ target = <<>>
    /\ options = NoOptions
    /\ result = Null
    /\ error = ""
    /\ stage = "selected"
    /\ origin = "none"
    /\ shift = 0
    /\ UiIdle
    /\ input = NoPosition
    /\ NormalizeIdle
    /\ AppIdle
    /\ annotations = [a \in Anns |-> [target |-> <<>>]]
    /\ hl = IdleHighlighter
    /\ hl2 = IdleHighlighter

\* TextSelector.getSelectors(range): the position and the quote selector of the selection
getSelectors ==
    /\ stage = "selected"
    /\ target' = << TextPositionSelector(span[1], span[2]),
                    fromTextPosition(textContent, span[1], span[2]) >>
    /\ origin' = "captured"
    /\ stage' = "stored"
    /\ UNCHANGED <<textContent, span, input, options, result, error, shift, hvars, nvars, avars, uvars>>

\* A quote selector that comes from elsewhere (a stored annotation): the
\* selected text with any context, or without.
loadSelector ==
    /\ stage = "selected"
    /\ Len(textContent) <= MaxLen
    /\ \E prefix \in Strings(MaxCtx) \cup {Undefined}, suffix \in Strings(MaxCtx) \cup {Undefined} :
           target' = << TextQuoteSelector(Slice(textContent, span[1], span[2]), prefix, suffix) >>
    /\ origin' = "given"
    /\ stage' = "stored"
    /\ UNCHANGED <<textContent, span, input, options, result, error, shift, hvars, nvars, avars, uvars>>

\* The document is edited before the selection and before its captured
\* prefix: characters are inserted at p, or removed from p on.
editBefore ==
    /\ stage = "stored"
    /\ origin = "captured"
    /\ LET limit == span[1] - Len(quoteOf(target).prefix)
       IN  \E p \in 0..limit :
             \/ \E ins \in Strings(MaxEdit) \ {<<>>} :
                   /\ textContent' = Slice(textContent, 0, p) \o ins
                                     \o Slice(textContent, p, Len(textContent))
                   /\ shift' = Len(ins)
             \/ \E n \in 1..MaxEdit :
                   /\ p + n <= limit
                   /\ textContent' = Slice(textContent, 0, p)
                                     \o Slice(textContent, p + n, Len(textContent))
                   /\ shift' = 0 - n
    /\ span' = <<span[1] + shift', span[2] + shift'>>
    /\ stage' = "edited"
    /\ UNCHANGED <<input, target, options, result, error, origin, hvars, nvars, avars, uvars>>

\* toTextPosition(root, quote, options) on the stored quote selector
resolve ==
    /\ \/ stage = "stored"
       \/ stage = "edited"
    /\ \E opts \in {NoOptions} \cup
                   { [hasHint |-> TRUE, hint |-> x] :
                       x \in IF stage = "stored" THEN (0 - 1)..(Len(textContent) + 1) ELSE {} } :
          /\ options' = opts
          /\ result' = toTextPosition(textContent, quoteOf(target), opts)
    /\ error' = ""
    /\ stage' = "resolved"
    /\ UNCHANGED <<textContent, span, input, target, origin, shift, hvars, nvars, avars, uvars>>

\* selectorsToRange(annotation, root) on the stored selectors: the character
\* span of the range it returns, Null when it throws.
anchor ==
    /\ \/ stage = "stored"
       \/ stage = "edited"
    /\ origin = "captured"
    /\ result' = charSpan(rootOf(textContent),
                          selectorsToRange([target |-> << Target(target) >>], rootOf(textContent)))
    /\ error' = selectorsToRange([target |-> << Target(target) >>], rootOf(textContent)).error
    /\ options' = NoOptions
    /\ stage' = "anchored"
    /\ UNCHANGED <<textContent, span, input, target, origin, shift, hvars, nvars, avars, uvars>>

\* The selectors fromTextPosition is called with for the selection
\* [start, end): each of start and end as it is, negative, or missing.
PositionInputs(start, end) ==
    { PositionInput(x[1], x[2], x[3], x[4]) :
          x \in BOOLEAN \X {start, 0 - 1} \X BOOLEAN \X {end, 0 - 1} }

\* fromTextPosition(root, selector) on any selector: the quote selector it
\* returns, or the message of the error it throws.
capturePosition ==
    /\ stage = "selected"
    /\ \E selector \in PositionInputs(span[1], span[2]) :
          /\ input' = selector
          /\ error' = fromTextPositionError(selector)
          /\ target' = IF fromTextPositionError(selector) = ""
                       THEN << fromTextPosition(textContent, selector.start, selector.end) >>
                       ELSE <<>>
    /\ origin' = "position"
    /\ stage' = "captured"
    /\ UNCHANGED <<textContent, span, options, result, shift, hvars, nvars, avars, uvars>>

QuoteNext == getSelectors \/ loadSelector \/ capturePosition \/ editBefore \/ resolve \/ anchor

SpecQuote == QuoteInit /\ [][QuoteNext]_vars

----------------------------------------------------------------------------
(* The resolution pipeline on stored selectors of any kind: a position     *)
(* that may be stale, a quote that may be missing from the document.       *)

\* Longest document the pipeline is run on.
MaxDoc == 3

\* Longest exact text of a stored quote selector.
MaxExact == 2

AnchorDocs == Strings(MaxDoc) \ { <<>> }

\* Stored position selectors: 0 <= start <= end, the end possibly past the
\* end of the document (the document got shorter since capture).
PositionSelectors(content) ==
    { TextPositionSelector(se[1], se[2]) :
          se \in { x \in (0..(Len(content) + 1)) \X (0..(Len(content) + 1)) : x[1] <= x[2] } }

\* Stored quote selectors, with or without exact, prefix and suffix.
QuoteSelectors ==
    { TextQuoteSelector(x[1], x[2], x[3]) :
          x \in (Strings(MaxExact) \cup {Undefined})
                 \X (Strings(MaxCtx) \cup {Undefined})
                 \X (Strings(MaxCtx) \cup {Undefined}) }

\* Stored quote selectors that have an exact and no context.
BareQuoteSelectors ==
    { TextQuoteSelector(x, Undefined, Undefined) : x \in Strings(MaxExact) }

\* annotation.target[0].selector: no selector, one, one of each type in
\* either order, or two of the same type.
SelectorLists(content) ==
    { <<>> }
    \cup { <<x>> : x \in PositionSelectors(content) \cup QuoteSelectors }
    \cup { <<x[1], x[2]>> : x \in PositionSelectors(content) \X QuoteSelectors }
    \cup { <<x[2], x[1]>> : x \in PositionSelectors(content) \X QuoteSelectors }
    \cup { <<x[1], x[2]>> : x \in PositionSelectors(content) \X PositionSelectors(content) }
    \cup { <<x[1], x[2]>> : x \in BareQuoteSelectors \X BareQuoteSelectors }

\* The root elements with the text `content`, two characters or more: one
\* text node, or two text nodes of which the second may lie in an element of
\* the page (element 0).
RootsOf(content) ==
    { << Text(content, <<>>) >> } \cup
    { << Text(SubSeq(content, 1, k), <<>>), Text(SubSeq(content, k + 1, Len(content)), ps) >> :
          k \in 1..(Len(content) - 1), ps \in { <<>>, <<0>> } }

\* The root elements with the text `content`, of any length.
AnchorRoots(content) == IF Len(content) < 2 THEN { rootOf(content) } ELSE RootsOf(content)

AnchorInit ==
    /\ textContent \in AnchorDocs
    /\ span = <<0, 0>>
    /\ target = <<>>
    /\ options = NoOptions
    /\ result = Null
    /\ error = ""
    /\ stage = "selected"
    /\ origin = "none"
    /\ shift = 0
    /\ UiIdle
    /\ input = NoPosition
    /\ NormalizeIdle
    /\ AppIdle
    /\ annotations = [a \in Anns |-> [target |-> <<>>]]
    /\ hl = IdleHighlighter
    /\ hl2 = IdleHighlighter

\* An annotation is loaded from the store with the selectors it has.
loadSelectors ==
    /\ stage = "selected"
    /\ target' \in SelectorLists(textContent)
    /\ origin' = "given"
    /\ stage' = "stored"
    /\ UNCHANGED <<textContent, span, input, options, result, error, shift, hvars, nvars, avars, uvars>>

\* selectorsToRange(annotation, root) on the loaded annotation: the character
\* span of the range it returns, or the message of the error it throws.
anchorGiven ==
    /\ stage = "stored"
    /\ \E root \in AnchorRoots(textContent) :
          /\ result' = charSpan(root, selectorsToRange([target |-> << Target(target) >>], root))
          /\ error' = selectorsToRange([target |-> << Target(target) >>], root).error
    /\ stage' = "anchored"
    /\ UNCHANGED <<textContent, span, input, target, options, origin, shift, hvars, nvars, avars, uvars>>

\* TextPositionAnchor.fromSelector(root, selector): the anchor's start and end
fromSelector(selector) == <<selector.start, selector.end>>

\* The stored position selector is made an anchor.
positionAnchor ==
    /\ stage = "stored"
    /\ pick(target, "TextPositionSelector") # 0
    /\ result' = fromSelector(target[pick(target, "TextPositionSelector")])
    /\ error' = ""
    /\ stage' = "position-anchor"
    /\ UNCHANGED <<textContent, span, input, target, options, origin, shift, hvars, nvars, avars, uvars>>

\* TextQuoteAnchor.toPositionAnchor(options) on the stored quote selector,
\* with or without a hint: the anchor's start and end, or 'Quote not found'.
quoteAnchor ==
    /\ stage = "stored"
    /\ pick(target, "TextQuoteSelector") # 0
    /\ quoteOf(target).exact # Undefined
    /\ \E opts \in {NoOptions} \cup
                   { [hasHint |-> TRUE, hint |-> x] : x \in (0 - 1)..(Len(textContent) + 1) } :
          /\ options' = opts
          /\ result' = toTextPosition(textContent, quoteOf(target), opts)
          /\ error' = IF toTextPosition(textContent, quoteOf(target), opts) = Null
                      THEN "Quote not found" ELSE ""
    /\ stage' = "quote-anchor"
    /\ UNCHANGED <<textContent, span, input, target, origin, shift, hvars, nvars, avars, uvars>>

AnchorNext == loadSelectors \/ anchorGiven \/ positionAnchor \/ quoteAnchor

SpecAnchor == AnchorInit /\ [][AnchorNext]_vars

----------------------------------------------------------------------------
(* The Highlighter on a document: draw, undraw, redraw, drawAll, destroy.  *)

\* Text of the document the highlighter runs on.
Content == <<"a", " ", "b">>

\* An annotation made from the selection [s, e) of the document, as
\* getSelectors captures it.
Captured(content, s, e) ==
    [target |-> << Target(<< TextPositionSelector(s, e), fromTextPosition(content, s, e) >>) >>]

\* An annotation whose quote is not in the document and that has no position.
Orphan == [target |-> << Target(<< TextQuoteSelector(<<"z">>, Undefined, Undefined) >>) >>]

\* Annotation 1 is any selection of the document or the orphan; the other
\* annotations are the whole document, its tail, or the orphan.
AnnotationsOn(content, a) ==
    IF a = 1 THEN { Captured(content, se[1], se[2]) : se \in Spans(content) } \cup { Orphan }
    ELSE { Captured(content, 0, Len(content)), Captured(content, 1, Len(content)), Orphan }

\* Lists of annotations given to drawAll.
Lists == UNION { [1..n -> Anns] : n \in 1..MaxBatch }

markup == <<hl.element, hl.spans, hl.local>>

Init ==
    /\ annotations \in { f \in [Anns -> AnnotationsOn(Content, 1)] :
                             \A a \in Anns : f[a] \in AnnotationsOn(Content, a) }
    /\ \E root \in RootsOf(Content), chunkSize \in 1..MaxChunk :
          hl = Highlighter(root, chunkSize)
    /\ hl2 = IdleHighlighter
    /\ textContent = <<>>
    /\ span = <<0, 0>>
    /\ target = <<>>
    /\ options = NoOptions
    /\ result = Null
    /\ error = ""
    /\ stage = "idle"
    /\ origin = "none"
    /\ shift = 0
    /\ UiIdle
    /\ input = NoPosition
    /\ NormalizeIdle
    /\ AppIdle

\* annotationCreated: highlighter.draw(ann)
Draw ==
    /\ Len(hl.spans) < MaxSpans
    /\ \E a \in Anns : hl' = draw(hl, annotations, a)
    /\ UNCHANGED <<annotations, hl2, qvars, nvars, avars, uvars>>

\* annotationDeleted: highlighter.undraw(ann)
Undraw ==
    /\ \E a \in Anns : hl' = undraw(hl, a)
    /\ UNCHANGED <<annotations, hl2, qvars, nvars, avars, uvars>>

\* annotationUpdated: highlighter.redraw(ann)
Redraw ==
    /\ Len(hl.spans) < MaxSpans
    /\ \E a \in Anns : hl' = redraw(hl, annotations, a)
    /\ UNCHANGED <<annotations, hl2, qvars, nvars, avars, uvars>>

\* highlighter.destroy()
Destroy ==
    /\ hl' = destroy(hl)
    /\ UNCHANGED <<annotations, hl2, qvars, nvars, avars, uvars>>

\* annotationsLoaded: highlighter.drawAll(anns), its first chunk
DrawAll ==
    /\ Len(hl.spans) < MaxSpans
    /\ hl.batch.status # "waiting"
    /\ \E list \in Lists : hl' = drawAll(hl, annotations, list)
    /\ UNCHANGED <<annotations, hl2, qvars, nvars, avars, uvars>>

\* The chunkDelay timer of drawAll fires: loader runs on the rest of the list.
Timer ==
    /\ hl.batch.status = "waiting"
    /\ hl' = loader(hl, annotations)
    /\ UNCHANGED <<annotations, hl2, qvars, nvars, avars, uvars>>

Next == Draw \/ Undraw \/ Redraw \/ Destroy \/ DrawAll \/ Timer

Spec == Init /\ [][Next]_vars

----------------------------------------------------------------------------
(* drawAll on the same document under two chunk sizes: hl and hl2 are two  *)
(* runs that start from the same document and get the same calls.          *)

ChunkInit ==
    /\ annotations \in { f \in [Anns -> AnnotationsOn(Content, 1)] :
                             \A a \in Anns : f[a] \in AnnotationsOn(Content, a) }
    /\ \E root \in RootsOf(Content), c1 \in 1..MaxChunk, c2 \in 1..MaxChunk :
          /\ hl = Highlighter(root, c1)
          /\ hl2 = Highlighter(root, c2)
    /\ textContent = <<>>
    /\ span = <<0, 0>>
    /\ target = <<>>
    /\ options = NoOptions
    /\ result = Null
    /\ error = ""
    /\ stage = "idle"
    /\ origin = "none"
    /\ shift = 0
    /\ UiIdle
    /\ input = NoPosition
    /\ NormalizeIdle
    /\ AppIdle

\* Before the batch: the same draw(ann) in both runs.
ChunkDraw ==
    /\ hl.batch.status = "idle"
    /\ hl2.batch.status = "idle"
    /\ Len(hl.spans) < MaxSpans
    /\ \E a \in Anns :
          /\ hl' = draw(hl, annotations, a)
          /\ hl2' = draw(hl2, annotations, a)
    /\ UNCHANGED <<annotations, qvars, nvars, avars, uvars>>

\* drawAll(list) is called in both runs.
ChunkDrawAll ==
    /\ hl.batch.status = "idle"
    /\ hl2.batch.status = "idle"
    /\ \E list \in Lists :
          /\ hl' = drawAll(hl, annotations, list)
          /\ hl2' = drawAll(hl2, annotations, list)
    /\ UNCHANGED <<annotations, qvars, nvars, avars, uvars>>

\* The chunkDelay timer of the first run fires.
ChunkTimer1 ==
    /\ hl.batch.status = "waiting"
    /\ hl' = loader(hl, annotations)
    /\ UNCHANGED <<annotations, hl2, qvars, nvars, avars, uvars>>

\* The chunkDelay timer of the second run fires.
ChunkTimer2 ==
    /\ hl2.batch.status = "waiting"
    /\ hl2' = loader(hl2, annotations)
    /\ UNCHANGED <<annotations, hl, qvars, nvars, avars, uvars>>

ChunkNext == ChunkDraw \/ ChunkDrawAll \/ ChunkTimer1 \/ ChunkTimer2

SpecChunk == ChunkInit /\ [][ChunkNext]_vars

----------------------------------------------------------------------------
(* BrowserRange objects normalised in a document, once or again.           *)

\* By how much an offset of a raw range may exceed the length of its text node.
MaxOver == 1

\* The BrowserRanges over the text nodes of a root: start before end, each
\* offset within its text node or up to MaxOver past its end.
BrowserRanges(element) ==
    { BrowserRange(x[1], x[2], x[3], x[4]) :
        x \in { y \in (1..Len(element)) \X (0..(Len(Content) + MaxOver))
                       \X (1..Len(element)) \X (0..(Len(Content) + MaxOver)) :
                  /\ y[2] <= Len(element[y[1]].nodeValue) + MaxOver
                  /\ y[4] <= Len(element[y[3]].nodeValue) + MaxOver
                  /\ \/ y[1] < y[3]
                     \/ y[1] = y[3] /\ y[2] <= y[4] } }

NormalizeInit ==
    /\ rootElement \in RootsOf(Content)
    /\ browserRange \in BrowserRanges(rootElement)
    /\ normed = NoResult
    /\ AppIdle
    /\ textContent = <<>>
    /\ span = <<0, 0>>
    /\ input = NoPosition
    /\ target = <<>>
    /\ options = NoOptions
    /\ result = Null
    /\ error = ""
    /\ stage = "idle"
    /\ origin = "none"
    /\ shift = 0
    /\ UiIdle
    /\ annotations = [a \in Anns |-> [target |-> <<>>]]
    /\ hl = IdleHighlighter
    /\ hl2 = IdleHighlighter

\* browserRange.normalize(root)
Normalize ==
    /\ rootElement' = normalizeOnce(rootElement, browserRange).element
    /\ browserRange' = normalizeOnce(rootElement, browserRange).range
    /\ normed' = normalizeOnce(rootElement, browserRange).result
    /\ UNCHANGED <<qvars, hvars, avars, uvars>>

\* browserRange.serialize(root)
Serialize ==
    /\ rootElement' = serialize(rootElement, browserRange).element
    /\ browserRange' = serialize(rootElement, browserRange).range
    /\ normed' = serialize(rootElement, browserRange).result
    /\ UNCHANGED <<qvars, hvars, avars, uvars>>

NormalizeNext == Normalize \/ Serialize

SpecNormalize == NormalizeInit /\ [][NormalizeNext]_vars

----------------------------------------------------------------------------
(* The Editor loaded, typed into, submitted and cancelled.                 *)

\* How many times the editor is loaded.
MaxLoads == 3

\* The texts of annotations and of the editor's textarea.
EditorTexts == {"", "x"}

EditorInit ==
    /\ editor = NewEditor
    /\ AdapterIdle
    /\ AuthzIdle
    /\ NormalizeIdle
    /\ textContent = <<>>
    /\ span = <<0, 0>>
    /\ input = NoPosition
    /\ target = <<>>
    /\ options = NoOptions
    /\ result = Null
    /\ error = ""
    /\ stage = "idle"
    /\ origin = "none"
    /\ shift = 0
    /\ UiIdle
    /\ annotations = [a \in Anns |-> [target |-> <<>>]]
    /\ hl = IdleHighlighter
    /\ hl2 = IdleHighlighter

\* editor.load(annotation) with an annotation that has a text or none
Load ==
    /\ Len(editor.promises) < MaxLoads
    /\ \E annotation \in { Annotation(FALSE, "") } \cup { Annotation(TRUE, t) : t \in EditorTexts } :
          editor' = load(editor, annotation)
    /\ UNCHANGED <<qvars, hvars, nvars, adapter, authz, uvars>>

\* The user types into the textarea of the shown editor.
Type ==
    /\ ~editor.hide
    /\ \E t \in EditorTexts : editor' = [editor EXCEPT !.textarea = t]
    /\ UNCHANGED <<qvars, hvars, nvars, adapter, authz, uvars>>

\* editor.submit(), from the save button, the form or the enter key
Submit ==
    /\ editor' = submit(editor)
    /\ UNCHANGED <<qvars, hvars, nvars, adapter, authz, uvars>>

\* editor.cancel(), from the cancel button or the escape key
Cancel ==
    /\ editor' = cancel(editor)
    /\ UNCHANGED <<qvars, hvars, nvars, adapter, authz, uvars>>

EditorNext == Load \/ Type \/ Submit \/ Cancel

SpecEditor == EditorInit /\ [][EditorNext]_vars

----------------------------------------------------------------------------
(* The StorageAdapter called with annotation objects.                      *)

\* The ids of annotation objects: none, null, the number 0, a string.
Ids == {"undefined", "null", "0", "a1"}

\* The annotation objects handed to the adapter.
StoredObjects == { StoredObject(x[1], x[2], x[3]) : x \in Ids \X EditorTexts \X BOOLEAN }

\* What a store function may return for the copy it was sent: the object
\* with its id or a new one, with its text or another.
Returns(sent) ==
    { Returned(x[1], x[2]) : x \in {sent.id, "a1"} \X EditorTexts }

AdapterInit ==
    /\ adapter = NoCall
    /\ EditorIdle
    /\ AuthzIdle
    /\ NormalizeIdle
    /\ textContent = <<>>
    /\ span = <<0, 0>>
    /\ input = NoPosition
    /\ target = <<>>
    /\ options = NoOptions
    /\ result = Null
    /\ error = ""
    /\ stage = "idle"
    /\ origin = "none"
    /\ shift = 0
    /\ UiIdle
    /\ annotations = [a \in Anns |-> [target |-> <<>>]]
    /\ hl = IdleHighlighter
    /\ hl2 = IdleHighlighter

\* No call is in progress: the last one has completed, rejected or thrown.
Callable == adapter.stage \in {"idle", "done", "rejected", "thrown"}

\* app.annotations.create(obj)
Create ==
    /\ Callable
    /\ \E obj \in StoredObjects, n \in 0..MaxHooks : adapter' = runHook(create(obj), n)
    /\ UNCHANGED <<qvars, hvars, nvars, editor, authz, uvars>>

\* app.annotations.update(obj)
Update ==
    /\ Callable
    /\ \E obj \in StoredObjects, n \in 0..MaxHooks : adapter' = runHook(update(obj), n)
    /\ UNCHANGED <<qvars, hvars, nvars, editor, authz, uvars>>

\* app.annotations.delete(obj)
Delete ==
    /\ Callable
    /\ \E obj \in StoredObjects, n \in 0..MaxHooks : adapter' = runHook(delete(obj), n)
    /\ UNCHANGED <<qvars, hvars, nvars, editor, authz, uvars>>

\* The promise of one 'before' hook fulfils (the editor was submitted).
HookFulfils ==
    /\ adapter.stage = "before"
    /\ adapter.fulfilled < adapter.hooks
    /\ adapter' = hookFulfilled(adapter)
    /\ UNCHANGED <<qvars, hvars, nvars, editor, authz, uvars>>

\* The promise of runHook(beforeEvent) fulfils: the store function is called.
BeforeFulfils ==
    /\ adapter.stage = "before"
    /\ allFulfilled(adapter)
    /\ adapter' = callStore(adapter)
    /\ UNCHANGED <<qvars, hvars, nvars, editor, authz, uvars>>

\* The promise of one 'before' hook rejects (the editor was cancelled).
BeforeRejects ==
    /\ adapter.stage = "before"
    /\ adapter.fulfilled < adapter.hooks
    /\ adapter' = rejected(adapter)
    /\ UNCHANGED <<qvars, hvars, nvars, editor, authz, uvars>>

\* The store's promise fulfils with the object the store returned.
StoreFulfils ==
    /\ adapter.stage = "store"
    /\ \E ret \in Returns(adapter.sent) : adapter' = storeReturned(adapter, ret)
    /\ UNCHANGED <<qvars, hvars, nvars, editor, authz, uvars>>

\* The store's promise rejects (the request failed).
StoreRejects ==
    /\ adapter.stage = "store"
    /\ adapter' = rejected(adapter)
    /\ UNCHANGED <<qvars, hvars, nvars, editor, authz, uvars>>

AdapterNext ==
    \/ Create \/ Update \/ Delete
    \/ HookFulfils \/ BeforeFulfils \/ BeforeRejects
    \/ StoreFulfils \/ StoreRejects

SpecAdapter == AdapterInit /\ [][AdapterNext]_vars

----------------------------------------------------------------------------
(* AclAuthzPolicy.permits called with a context and an identity.           *)

\* How many tokens a permission list has at most.
MaxTokens == 2

UserIds == {"alice", "bob"}

\* The values of identity and of context.user
UserValues == {"undefined", "null", ""} \cup UserIds

\* The token lists of length n or less
TokenLists(n) == UNION { [1..k -> UserIds] : k \in 0..n }

TokenValues ==
    { Tokens("undefined", <<>>), Tokens("null", <<>>) }
    \cup { Tokens("array", l) : l \in TokenLists(MaxTokens) }

Contexts ==
    { Context(FALSE, [a \in Actions |-> Tokens("undefined", <<>>)], u) : u \in UserValues }
    \cup { Context(TRUE, t, u) : t \in [Actions -> TokenValues], u \in UserValues }

AuthzInit ==
    /\ authz \in { Call(x[1], x[2], x[3]) : x \in Actions \X Contexts \X UserValues }
    /\ EditorIdle
    /\ AdapterIdle
    /\ NormalizeIdle
    /\ textContent = <<>>
    /\ span = <<0, 0>>
    /\ input = NoPosition
    /\ target = <<>>
    /\ options = NoOptions
    /\ result = Null
    /\ error = ""
    /\ stage = "idle"
    /\ origin = "none"
    /\ shift = 0
    /\ UiIdle
    /\ annotations = [a \in Anns |-> [target |-> <<>>]]
    /\ hl = IdleHighlighter
    /\ hl2 = IdleHighlighter

\* authz.permits(action, context, identity)
Permits ==
    /\ ~authz.called
    /\ authz' = [authz EXCEPT !.called = TRUE,
                              !.returned = permits(authz.action, authz.context, authz.identity)]
    /\ UNCHANGED <<qvars, hvars, nvars, editor, adapter, uvars>>

AuthzNext == Permits

SpecAuthz == AuthzInit /\ [][AuthzNext]_vars

----------------------------------------------------------------------------
(* Claims about quote capture and resolution, checked under SpecQuote.     *)

\* Start offsets of the occurrences of exact in content.
Occurrences(content, exact) ==
    { k \in 0..(Len(content) - Len(exact)) : Slice(content, k, k + Len(exact)) = exact }

Selected == Slice(textContent, span[1], span[2])

NoContext(selector) == selector.prefix = Undefined /\ selector.suffix = Undefined

\* A captured selector was resolved without hint against the unmodified document.
RoundTripDone ==
    stage = "resolved" /\ origin = "captured" /\ shift = 0 /\ ~options.hasHint

\* C1 as stated: capture then resolve (no hint, unmodified document) returns
\* the original (start, end), for every span of every document.  Stated here
\* for the non-empty spans only: the empty ones fail it as well.
C1_RoundTrip == RoundTripDone /\ span[1] < span[2] => result = span

\* C1 amended: capture then resolve returns a span with the selected text
\* that starts at or before start, and exactly (start, end) whenever
\* start <= CONTEXT_LENGTH, that is, whenever the prefix reaches back to the
\* start of the document.
C1_RoundTripWithinContext ==
    RoundTripDone =>
        /\ result # Null
        /\ Slice(textContent, result[1], result[2]) = Selected
        /\ result[1] <= span[1]
        /\ span[1] <= CONTEXT_LENGTH => result = span

\* C1 witness: a later occurrence of a repeated text is captured and found again.
C1_Witness ==
    /\ RoundTripDone
    /\ span[1] < span[2]
    /\ Min(Occurrences(textContent, Selected)) < span[1]
    /\ result = span

HintedRepeat ==
    /\ stage = "resolved"
    /\ origin = "given"
    /\ NoContext(quoteOf(target))
    /\ Cardinality(Occurrences(textContent, Selected)) > 1
    /\ options.hasHint
    /\ options.hint <= span[1]

AnchoredAfterEdit == stage = "anchored" /\ shift # 0

\* C4 as stated (for a non-empty selection): after an edit before the span
\* the pipeline returns the span of the originally selected text at its
\* shifted offsets.
C4_EditBeforeShiftedSpan == (AnchoredAfterEdit /\ span[1] < span[2]) => result = span

\* C4 amended: after an edit before the span the pipeline returns a span
\* whose text is the originally selected text; it is the shifted span
\* whenever that text occurs nowhere else in the edited document.
C4_EditBeforeSameText ==
    AnchoredAfterEdit =>
        /\ result # Null
        /\ Slice(textContent, result[1], result[2]) = quoteOf(target).exact
        /\ Occurrences(textContent, quoteOf(target).exact) = {span[1]} => result = span

\* C4 witness: characters were removed before the span, the stored position
\* no longer holds the quote, and the shifted span is returned.
C4_Witness ==
    /\ AnchoredAfterEdit
    /\ shift < 0
    /\ span[1] < span[2]
    /\ result = span

----------------------------------------------------------------------------
(* Claims about the Highlighter, checked under Spec and SpecChunk.         *)

\* annotation._local.highlights as a set, empty when there is no list
listed(h, a) ==
    IF h.local[a].hasHighlights
    THEN { h.local[a].highlights[i] : i \in 1..Len(h.local[a].highlights) }
    ELSE {}

\* The spans whose hl.annotation is a
owned(h, a) == { s \in 1..Len(h.spans) : h.spans[s].annotation = a }

\* How many spans owned by a wrap text node k
wrappers(h, a, k) ==
    Cardinality({ i \in 1..Len(h.element[k].parents) :
                    h.element[k].parents[i] \in owned(h, a) })

\* C5: in every state reached by draw, undraw, redraw, drawAll and destroy,
\* the marker list of each annotation holds exactly the attached markers that
\* refer to it.  (As the claim states it; destroy() breaks it: it unwraps the
\* markers and leaves the lists as they were.)
C5_ListsAreAttachedMarkers ==
    \A a \in Anns : listed(hl, a) = owned(hl, a) \cap attached(hl.element)

\* C6: after any sequence of draw, undraw and redraw (no drawAll involved),
\* every text node is wrapped by at most one marker of an annotation, and an
\* annotation without a list has no marker in the document.  (As the claim
\* states it; draw called twice wraps the same text node twice.)
C6_NoDuplicatedOrLeakedMarkers ==
    hl.batch.status = "idle" =>
        \A a \in Anns :
            /\ \A k \in 1..Len(hl.element) : wrappers(hl, a, k) <= 1
            /\ ~hl.local[a].hasHighlights => owned(hl, a) \cap attached(hl.element) = {}

\* C7: an annotation that cannot be anchored does not abort drawAll: the
\* promise of drawAll never rejects with 'unable to anchor'.  (As the claim
\* states it; loader has no try/catch around draw.)
C7_DrawAllSwallowsAnchoringFailure ==
    ~(hl.batch.status = "rejected" /\ hl.thrown = "unable to anchor")

Settled(h) == h.batch.status \in {"fulfilled", "rejected"}

\* C8: two runs of drawAll on the same document and list that differ in
\* chunkSize only end with the same markers in the document, the same
\* marker list per annotation, the same outcome of the promise and the
\* same returned list.
C8_ChunkSizeSameOutcome ==
    Settled(hl) /\ Settled(hl2) =>
        /\ hl.element = hl2.element
        /\ hl.spans = hl2.spans
        /\ hl.local = hl2.local
        /\ hl.batch.status = hl2.batch.status
        /\ hl.batch.highlights = hl2.batch.highlights

\* Two fulfilled runs with different chunk sizes that returned markers of
\* two annotations: one run drew them in one chunk, the other in two.
C8_Witness ==
    /\ hl.batch.status = "fulfilled"
    /\ hl2.batch.status = "fulfilled"
    /\ hl.chunkSize = 1
    /\ hl2.chunkSize = 2
    /\ \E i, j \in 1..Len(hl.batch.highlights) :
          hl.spans[hl.batch.highlights[i]].annotation
              # hl.spans[hl.batch.highlights[j]].annotation

\* C9: wrapping and unwrapping markers never adds, removes or reorders
\* text: the text content of the root is what it was before the first draw,
\* in every state, so also after draw(a) followed by undraw(a).
C9_TextContentUnchanged == textContentOf(hl.element) = Content

\* An annotation was drawn on a part of a text node (the node was split) and
\* undrawn again: its spans exist and none is attached.
C9_Witness ==
    \E a \in Anns :
        /\ hl.local[a].exists
        /\ ~hl.local[a].hasHighlights
        /\ owned(hl, a) # {}
        /\ attached(hl.element) = {}
        /\ Len(hl.element) >= 3

\* C10: every step that is undraw(a) raises no error, leaves a without a
\* marker list and none of a's markers in the document; when a had no list
\* (never drawn, or undrawn just before) it changes nothing in the document.
C10_UndrawSafeIdempotent ==
    [][\A a \in Anns :
          hl' = undraw(hl, a) =>
              /\ hl'.thrown = ""
              /\ ~hl'.local[a].hasHighlights
              /\ owned(hl', a) \cap attached(hl'.element) = {}
              /\ ~hl.local[a].hasHighlights =>
                     /\ hl'.element = hl.element
                     /\ hl'.local = hl.local]_vars

\* An annotation that was drawn and undrawn while another one stays drawn:
\* a further undraw of it is the second in a row.
C10_Witness ==
    \E a, b \in Anns :
        /\ a # b
        /\ hl.local[a].exists
        /\ ~hl.local[a].hasHighlights
        /\ owned(hl, a) # {}
        /\ listed(hl, b) # {}
        /\ hl.thrown = ""

\* C11: after a successful draw(a) the marker list of a holds exactly the
\* markers that call created: a list left by an earlier draw is replaced.
\* (As the claim states it; draw pushes on the list it finds.)
C11_DrawReplacesList ==
    [][\A a \in Anns :
          hl' = draw(hl, annotations, a) /\ hl'.thrown = "" =>
              listed(hl', a) = (Len(hl.spans) + 1)..Len(hl'.spans)]_vars

----------------------------------------------------------------------------
(* Claims about the resolution pipeline, checked under SpecAnchor.         *)

\* The selectors the pipeline picked from the stored list, 0 for none.
PickedPosition == pick(target, "TextPositionSelector")

PickedQuote == pick(target, "TextQuoteSelector")

\* The stored quote states an exact text.
QuoteHasExact == PickedQuote # 0 /\ target[PickedQuote].exact # Undefined

\* The position selector is absent, lies outside the document, or the text
\* at its offsets is not the quote's exact text.
PositionFails ==
    \/ PickedPosition = 0
    \/ target[PickedPosition].end > Len(textContent)
    \/ /\ QuoteHasExact
       /\ Slice(textContent, target[PickedPosition].start, target[PickedPosition].end)
              # target[PickedQuote].exact

\* The quote selector is absent or its exact text is not found.
QuoteFails ==
    \/ ~QuoteHasExact
    \/ toTextPosition(textContent, target[PickedQuote], NoOptions) = Null

\* C12: the pipeline returns a span or throws 'unable to anchor' and nothing
\* else; it throws exactly when the position is absent, does not resolve or
\* mismatches the quote, and the quote is absent or not found.
C12_UnableToAnchorOnly ==
    stage = "anchored" =>
        /\ result # Null => error = ""
        /\ result = Null => error = "unable to anchor"
        /\ result = Null <=> PositionFails /\ QuoteFails

\* Both selectors were tried and both failed inside the pipeline: the
\* position is in the document but its text is not the quote, and the quote
\* is not found.
C12_Witness ==
    /\ stage = "anchored"
    /\ PickedPosition # 0
    /\ target[PickedPosition].end <= Len(textContent)
    /\ QuoteHasExact
    /\ PositionFails
    /\ QuoteFails
    /\ error = "unable to anchor"

----------------------------------------------------------------------------
(* Further claims about the Highlighter, checked under Spec.               *)

\* C13: drawAll runs to completion: when its promise has settled, draw was
\* called on every annotation of the list, once each and in order.  (As the
\* claim states it; the first annotation that cannot be anchored rejects the
\* promise and the annotations after it are never attempted.)
C13_DrawAllAttemptsAll ==
    Settled(hl) => hl.batch.attempted = hl.batch.list

\* C14: after every destroy() no highlight span is left under the root,
\* whichever annotation it belongs to and however the spans are nested, and
\* the text content of the root is what it was before.
C14_DestroyRemovesAllMarkers ==
    [][hl' = destroy(hl) =>
          /\ attached(hl'.element) = {}
          /\ textContentOf(hl'.element) = textContentOf(hl.element)]_vars

\* destroy() ran on nested spans: no span is attached, and an annotation
\* still lists two spans that both wrapped the only text node of the root.
C14_Witness ==
    /\ attached(hl.element) = {}
    /\ Len(hl.element) = 1
    /\ \E a \in Anns : Cardinality(listed(hl, a)) >= 2

\* The characters (offsets in root.textContent) inside a span owned by a
decorated(h, a) ==
    { c \in 0..(Len(textContentOf(h.element)) - 1) :
        \E k \in 1..Len(h.element) :
            /\ lengthUpTo(h.element, k - 1) <= c
            /\ c < lengthUpTo(h.element, k)
            /\ wrappers(h, a, k) >= 1 }

\* a is drawn: it has a marker list, not empty, and its markers are attached
Drawn(h, a) ==
    /\ h.local[a].hasHighlights
    /\ listed(h, a) # {}
    /\ listed(h, a) \subseteq attached(h.element)

\* The text nodes' values: the document without its highlight spans
textNodeValues(h) == [k \in 1..Len(h.element) |-> h.element[k].nodeValue]

\* C15 as stated: redraw(a) of a drawn annotation leaves the same characters
\* decorated for a, each by exactly one marker of a, the list being the
\* markers just created; a second redraw changes nothing of that.
C15_RedrawSameDecoration ==
    [][\A a \in Anns :
          hl' = redraw(hl, annotations, a) /\ Drawn(hl, a) =>
              /\ hl'.thrown = ""
              /\ decorated(hl', a) = decorated(hl, a)
              /\ \A k \in 1..Len(hl'.element) : wrappers(hl', a, k) <= 1
              /\ listed(hl', a) = (Len(hl.spans) + 1)..Len(hl'.spans)
              /\ decorated(redraw(hl', annotations, a), a) = decorated(hl', a)
              /\ textNodeValues(redraw(hl', annotations, a)) = textNodeValues(hl')]_vars

\* The text node of h that holds character c is white space only
inWhiteNode(h, c) ==
    \E k \in 1..Len(h.element) :
        /\ lengthUpTo(h.element, k - 1) <= c
        /\ c < lengthUpTo(h.element, k)
        /\ white(h.element[k].nodeValue)

\* C15 amended: redraw(a) of a drawn annotation leaves decorated for a the
\* characters that were decorated before, except those that now lie in a
\* text node of white space only (another annotation's draw split it off);
\* each is in exactly one marker of a, the list is the markers just created,
\* and a second redraw changes neither the decoration nor the text nodes.
C15_RedrawKeepsNonWhiteDecoration ==
    [][\A a \in Anns :
          hl' = redraw(hl, annotations, a) /\ Drawn(hl, a) =>
              /\ hl'.thrown = ""
              /\ decorated(hl', a) = { c \in decorated(hl, a) : ~inWhiteNode(hl', c) }
              /\ \A k \in 1..Len(hl'.element) : wrappers(hl', a, k) <= 1
              /\ listed(hl', a) = (Len(hl.spans) + 1)..Len(hl'.spans)
              /\ decorated(redraw(hl', annotations, a), a) = decorated(hl', a)
              /\ textNodeValues(redraw(hl', annotations, a)) = textNodeValues(hl')]_vars

\* An annotation was drawn, undrawn and drawn again (an earlier marker of it
\* is detached) after another annotation's draw split a white-space node off
\* its text: it is drawn, and a character of its span is not decorated.
C15_Witness ==
    \E a \in Anns :
        /\ Drawn(hl, a)
        /\ owned(hl, a) \ listed(hl, a) # {}
        /\ \A k \in 1..Len(hl.element) : wrappers(hl, a, k) <= 1
        /\ \E p \in 1..Len(selectorsOf(annotations[a])) :
              /\ selectorsOf(annotations[a])[p].type = "TextPositionSelector"
              /\ \E c \in selectorsOf(annotations[a])[p].start..(selectorsOf(annotations[a])[p].end - 1) :
                    c \notin decorated(hl, a)

----------------------------------------------------------------------------
(* Claims about the quote functions, checked under SpecQuote.              *)

\* A quote selector without prefix and suffix was resolved.
ResolvedNoContext == stage = "resolved" /\ NoContext(quoteOf(target))

\* <<i, i + len(exact)>> for the least occurrence i of the exact text at or
\* after c, Null when there is none
FirstFrom(c) ==
    IF { k \in Occurrences(textContent, quoteOf(target).exact) : k >= c } = {} THEN Null
    ELSE << Min({ k \in Occurrences(textContent, quoteOf(target).exact) : k >= c }),
            Min({ k \in Occurrences(textContent, quoteOf(target).exact) : k >= c })
                + Len(quoteOf(target).exact) >>

\* C16 as stated: without prefix and suffix, resolution returns the first
\* occurrence of exact at or after the cursor, the cursor being options.hint
\* if given and 0 otherwise, and null when there is none.
C16_FirstFromHint ==
    ResolvedNoContext => result = FirstFrom(IF options.hasHint THEN options.hint ELSE 0)

\* C16 amended: the same with the cursor being options.hint brought into
\* [0, length of the content], as String.prototype.indexOf does.
C16_FirstFromClampedHint ==
    ResolvedNoContext =>
        result = FirstFrom(IF options.hasHint THEN Clamp(options.hint, 0, Len(textContent)) ELSE 0)

\* A hint past an earlier occurrence: the occurrence after the hint is returned.
C16_Witness ==
    /\ ResolvedNoContext
    /\ options.hasHint
    /\ options.hint > 0
    /\ quoteOf(target).exact # <<>>
    /\ Min(Occurrences(textContent, quoteOf(target).exact)) < options.hint
    /\ result # Null
    /\ result[1] >= options.hint

\* fromTextPosition was called on the selector `input`.
Captured17 == stage = "captured"

\* C17: for 0 <= start <= end <= len(content) capture returns exact =
\* content[start:end], the min(32, start) characters before start as prefix
\* and the min(32, len - end) characters after end as suffix; it throws when
\* start or end is missing or negative.
C17_CaptureExactAndContext ==
    Captured17 =>
        /\ ( /\ input.hasStart
             /\ input.hasEnd
             /\ 0 <= input.start
             /\ input.start <= input.end
             /\ input.end <= Len(textContent) )
           => /\ error = ""
              /\ Len(target) = 1
              /\ target[1].exact = Slice(textContent, input.start, input.end)
              /\ target[1].prefix =
                     Slice(textContent,
                           input.start - Min({CONTEXT_LENGTH, input.start}),
                           input.start)
              /\ target[1].suffix =
                     Slice(textContent, input.end,
                           input.end + Min({CONTEXT_LENGTH, Len(textContent) - input.end}))
        /\ ( \/ ~input.hasStart
             \/ ~input.hasEnd
             \/ input.start < 0
             \/ input.end < 0 )
           => /\ error # ""
              /\ target = <<>>

\* A capture more than 32 characters into the document: the prefix is cut
\* at 32 characters.
C17_Witness ==
    /\ Captured17
    /\ error = ""
    /\ input.start > CONTEXT_LENGTH
    /\ input.start < input.end
    /\ Len(target[1].prefix) = CONTEXT_LENGTH

----------------------------------------------------------------------------
(* Claims about anchors, checked under SpecAnchor.                         *)

\* 0 <= start <= end <= length of the document content
InBounds(pair) ==
    /\ 0 <= pair[1]
    /\ pair[1] <= pair[2]
    /\ pair[2] <= Len(textContent)

\* C18 as stated: every anchor produced by resolving a selector, by the
\* position path or by the quote path, lies within the document.
C18_AnchorInBounds ==
    (stage \in {"position-anchor", "quote-anchor"} /\ result # Null) => InBounds(result)

\* C18 amended: every anchor of the quote path and every span the pipeline
\* returns lies within the document; an anchor of the position path is the
\* selector's start and end, unchecked, and lies within the document
\* whenever it converts to a range.
C18_QuoteAnchorInBounds ==
    /\ (stage \in {"quote-anchor", "anchored"} /\ result # Null) => InBounds(result)
    /\ stage = "position-anchor" =>
          /\ result = <<target[PickedPosition].start, target[PickedPosition].end>>
          /\ textPositionToRange(rootOf(textContent), result[1], result[2]).ok => InBounds(result)

\* A quote anchor found with a hint, at the very end of the document.
C18_Witness ==
    /\ stage = "quote-anchor"
    /\ options.hasHint
    /\ result # Null
    /\ result[1] < result[2]
    /\ result[2] = Len(textContent)

----------------------------------------------------------------------------
(* Claims about BrowserRange.normalize, checked under SpecNormalize.       *)

\* C19: a call of normalize() on a BrowserRange that was normalised before
\* fails with an error and splits no text node.  (As the claim states it; the
\* second normalize() returns false and throws nothing.)
C19_SecondNormalizeFails ==
    [][rootElement' = normalizeOnce(rootElement, browserRange).element
       /\ normed' = normalizeOnce(rootElement, browserRange).result
       /\ browserRange.tainted
       => /\ normed'.thrown # ""
          /\ rootElement' = rootElement]_vars

\* An offset of b lies past the end of the text node it points into
OutOfRange(element, b) ==
    \/ b.startOffset > Len(element[b.startContainer].nodeValue)
    \/ b.endOffset > Len(element[b.endContainer].nodeValue)

\* C20: normalize() of a range with a start or end offset past the end of
\* its text node fails with an error and returns no normalized range.  (As
\* the claim states it; normalize never looks at the offsets' upper bound.)
C20_OutOfRangeFails ==
    [][rootElement' = normalizeOnce(rootElement, browserRange).element
       /\ normed' = normalizeOnce(rootElement, browserRange).result
       /\ ~browserRange.tainted
       /\ OutOfRange(rootElement, browserRange)
       => /\ normed'.thrown # ""
          /\ normed'.returned # "NormalizedRange"]_vars


\* The first selector of a type in the list: index, 0 for none
firstOf(selectors, type) ==
    IF \E i \in 1..Len(selectors) : selectors[i].type = type
    THEN Min({ i \in 1..Len(selectors) : selectors[i].type = type })
    ELSE 0

\* The first selector of a type in the list, as a list of one or none
firstAsList(selectors, i) == IF i = 0 THEN <<>> ELSE << selectors[i] >>

\* The list with the first position selector and the first quote selector only
firstOfEach(selectors) ==
    firstAsList(selectors, firstOf(selectors, "TextPositionSelector"))
    \o firstAsList(selectors, firstOf(selectors, "TextQuoteSelector"))

\* C21: the pipeline anchors an annotation as it would anchor the first
\* position selector and the first quote selector of its list.  (As the claim
\* states it; the loop over the selectors keeps the last of each type.)
C21_FirstOfEachKind ==
    [][stage = "stored" /\ stage' = "anchored"
       => \E root \in AnchorRoots(textContent) :
             /\ result' = charSpan(root, anchorSelectors(root, firstOfEach(target)))
             /\ error' = anchorSelectors(root, firstOfEach(target)).error]_vars


----------------------------------------------------------------------------
(* Claims about the Editor, checked under SpecEditor.                      *)

\* C22: the editor's next outcome settles every promise load has returned:
\* after a submit no promise is pending and those that were pending are
\* resolved, after a cancel they are rejected.  (As the claim states it; a
\* second load replaces dfd and the promise of the first stays pending.)
C22_OutcomeSettlesEveryLoad ==
    [][/\ (editor' = submit(editor)
             => \A p \in 1..Len(editor.promises) :
                    editor.promises[p] = "pending" => editor'.promises[p] = "resolved")
       /\ (editor' = cancel(editor)
             => \A p \in 1..Len(editor.promises) :
                    editor.promises[p] = "pending" => editor'.promises[p] = "rejected")]_vars


----------------------------------------------------------------------------
(* Claims about the StorageAdapter, checked under SpecAdapter.             *)

\* The object the adapter was called with has no id
CalledWithoutId ==
    /\ adapter.func \in {"update", "delete"}
    /\ adapter.arg.id \in {"undefined", "null"}

\* C23: update and delete called with an annotation whose id is undefined or
\* null throw a TypeError: no hook has run, the store was not called, and
\* the annotation object is what it was.
C23_NoIdThrowsBeforeHooks ==
    CalledWithoutId =>
        /\ adapter.stage = "thrown"
        /\ adapter.thrown = "TypeError"
        /\ adapter.log = <<>>
        /\ adapter.sent = NoObject
        /\ adapter.obj = adapter.arg

\* update or delete was called without an id, on an object that has a text
\* and _local, after an earlier call went through the store.
C23_Witness ==
    /\ CalledWithoutId
    /\ adapter.func = "delete"
    /\ adapter.arg.id = "null"
    /\ adapter.arg.local
    /\ adapter.arg.text = "x"
    /\ adapter.stage = "thrown"


----------------------------------------------------------------------------
(* Claims about AclAuthzPolicy.permits, checked under SpecAuthz.           *)

\* The tokens of the action asked for
askedTokens == authz.context.permissions.tokens[authz.action]

\* C24: permits returns, when context.permissions is set: true if
\* permissions[action] is undefined or null, otherwise true exactly when the
\* user id is one of the tokens; when permissions is not set and
\* context.user is (a value the test `context.user` takes as true): true
\* exactly when the user id equals context.user; otherwise true.
C24_PermitsByAclThenUser ==
    authz.called =>
        authz.returned =
            IF authz.context.permissions.set
            THEN \/ askedTokens.kind # "array"
                 \/ authz.identity \in { askedTokens.list[i] : i \in 1..Len(askedTokens.list) }
            ELSE Truthy(authz.context.user) => authz.identity = authz.context.user

\* permits has answered false for a user where the action's token list is
\* empty and context.user is that user.
C24_Witness ==
    /\ authz.called
    /\ authz.context.permissions.set
    /\ askedTokens.kind = "array"
    /\ askedTokens.list = <<>>
    /\ authz.identity = "alice"
    /\ authz.context.user = "alice"
    /\ ~authz.returned


----------------------------------------------------------------------------
(* Claims about the order of the two selectors, checked under SpecAnchor.  *)

\* The picked position selector lies in the document
PositionResolves ==
    /\ PickedPosition # 0
    /\ target[PickedPosition].end <= Len(textContent)

\* The text at the picked position selector's offsets
PositionText ==
    Slice(textContent, target[PickedPosition].start, target[PickedPosition].end)

\* C25: when the position resolves to a text that is not the quote's exact,
\* the pipeline returns what the quote search alone gives, or throws 'unable
\* to anchor' if the quote is not found; it neither returns the position's
\* span for that reason nor fails with the mismatch.
C25_MismatchFallsThroughToQuote ==
    stage = "anchored" /\ PositionResolves /\ QuoteHasExact
                       /\ PositionText # target[PickedQuote].exact
        => /\ result = toTextPosition(textContent, target[PickedQuote], NoOptions)
           /\ error = IF result = Null THEN "unable to anchor" ELSE ""

\* The position resolved to another text than the quote's, and the quote was
\* found elsewhere in the document.
C25_Witness ==
    /\ stage = "anchored"
    /\ PositionResolves
    /\ QuoteHasExact
    /\ target[PickedQuote].exact # <<>>
    /\ PositionText # target[PickedQuote].exact
    /\ result # Null
    /\ result # <<target[PickedPosition].start, target[PickedPosition].end>>

\* C26: when the position resolves and there is no quote selector or the
\* text at the position is the quote's exact, the pipeline returns the
\* position's span, whatever the quote search alone would find.
C26_PositionHasPriority ==
    stage = "anchored" /\ PositionResolves
                       /\ (PickedQuote = 0
                           \/ (QuoteHasExact /\ PositionText = target[PickedQuote].exact))
        => /\ result = <<target[PickedPosition].start, target[PickedPosition].end>>
           /\ error = ""

\* The position's span was returned where the quote search alone resolves to
\* an earlier occurrence of the same text.
C26_Witness ==
    /\ stage = "anchored"
    /\ PositionResolves
    /\ QuoteHasExact
    /\ target[PickedQuote].exact # <<>>
    /\ PositionText = target[PickedQuote].exact
    /\ toTextPosition(textContent, target[PickedQuote], NoOptions) # Null
    /\ toTextPosition(textContent, target[PickedQuote], NoOptions)
           # <<target[PickedPosition].start, target[PickedPosition].end>>
    /\ result = <<target[PickedPosition].start, target[PickedPosition].end>>


----------------------------------------------------------------------------
(* Claims about prefix and suffix in the quote search, under SpecAnchor.   *)

\* TextQuoteAnchor.toPositionAnchor ran on the stored quote selector
QuoteAnchored == stage = "quote-anchor"

\* The cursor the search starts with: options.hint, or 0
InitialCursor == IF options.hasHint THEN options.hint ELSE 0

\* The least index at or after c where pat occurs in the document, -1 for none
FirstAtOrAfter(pat, c) ==
    IF { k \in Occurrences(textContent, pat) : k >= c } = {} THEN 0 - 1
    ELSE Min({ k \in Occurrences(textContent, pat) : k >= c })

\* The prefix is present and occurs at or after c
PrefixFoundFrom(c) ==
    /\ quoteOf(target).prefix # Undefined
    /\ FirstAtOrAfter(quoteOf(target).prefix, c) > 0 - 1

\* The suffix is present and occurs at or after c + len(exact)
SuffixFoundFrom(c) ==
    /\ quoteOf(target).suffix # Undefined
    /\ FirstAtOrAfter(quoteOf(target).suffix, c + Len(quoteOf(target).exact)) > 0 - 1

\* The cursor after the context was looked at, starting from c: the end of
\* the first prefix at or after c; else the first suffix at or after
\* c + len(exact), less len(exact); else c.
CursorAfterContext(c) ==
    IF PrefixFoundFrom(c)
    THEN FirstAtOrAfter(quoteOf(target).prefix, c) + Len(quoteOf(target).prefix)
    ELSE IF SuffixFoundFrom(c)
    THEN FirstAtOrAfter(quoteOf(target).suffix, c + Len(quoteOf(target).exact))
             - Len(quoteOf(target).exact)
    ELSE c

SearchesWithinDocument ==
    InitialCursor + Len(quoteOf(target).exact) <= Len(textContent)

----------------------------------------------------------------------------
(* Claims about the outcome of normalisation, checked under SpecNormalize. *)

\* The concatenated values of the text nodes i..j of a root
RECURSIVE valuesFromTo(_, _, _)
valuesFromTo(element, i, j) ==
    IF i > j THEN <<>> ELSE element[i].nodeValue \o valuesFromTo(element, i + 1, j)

\* The text of the raw range b of a root: the characters from its start
\* point to its end point
rawText(element, b) ==
    Slice(textContentOf(element),
          lengthUpTo(element, b.startContainer - 1) + b.startOffset,
          lengthUpTo(element, b.endContainer - 1) + b.endOffset)

\* C28: normalize() of a range that is not empty and whose offsets lie
\* within their text nodes returns a range whose first and last nodes are text nodes of the document,
\* the text of the nodes from the first to the last is the text of the raw
\* range, and a range within one text node gives a single node.  (As the claim
\* states it; a start at the end of a text node becomes that node's
\* nextSibling, which is an element or null where no text node follows.)
C28_NormalizeKeepsText ==
    [][/\ rootElement' = normalizeOnce(rootElement, browserRange).element
       /\ normed' = normalizeOnce(rootElement, browserRange).result
       /\ ~browserRange.tainted
       /\ ~OutOfRange(rootElement, browserRange)
       /\ rawText(rootElement, browserRange) # <<>>
       => /\ normed'.returned = "NormalizedRange"
          /\ normed'.start \in 1..Len(rootElement')
          /\ normed'.end \in 1..Len(rootElement')
          /\ valuesFromTo(rootElement', normed'.start, normed'.end)
                 = rawText(rootElement, browserRange)
          /\ (browserRange.startContainer = browserRange.endContainer
                 => normed'.start = normed'.end)]_vars


----------------------------------------------------------------------------
(* Claims about what a draw wraps, checked under Spec.                     *)

\* The normalized range draw(a) works on in the current document
normedFor(a) == normalize(hl.element, selectorsToRange(annotations[a], hl.element))

\* The spans among `new` that wrap text node k of document h
wrappingOf(h, k, new) ==
    { i \in 1..Len(h.element[k].parents) : h.element[k].parents[i] \in new }

\* The text node a span wraps in document h
wrappedBy(h, s) ==
    CHOOSE k \in 1..Len(h.element) : \E i \in 1..Len(h.element[k].parents) :
                                          h.element[k].parents[i] = s

\* C29: a successful draw(a) wraps every text node of the normalized range
\* that is not white space in exactly one new span, wraps no white-space
\* node and no node outside the range, and the new spans are pushed on the
\* list in document order.
C29_DrawWrapsNonWhiteNodesOnce ==
    [][\A a \in Anns :
          hl' = draw(hl, annotations, a) /\ hl'.thrown = "" =>
              /\ \A k \in 1..Len(hl'.element) :
                    Cardinality(wrappingOf(hl', k, (Len(hl.spans) + 1)..Len(hl'.spans)))
                        = IF /\ k \in normedFor(a).start..normedFor(a).end
                             /\ ~white(hl'.element[k].nodeValue)
                          THEN 1 ELSE 0
              /\ \A i, j \in 1..Len(hl'.local[a].highlights) :
                    /\ i < j
                    /\ hl'.local[a].highlights[i] > Len(hl.spans)
                    /\ hl'.local[a].highlights[j] > Len(hl.spans)
                    => wrappedBy(hl', hl'.local[a].highlights[i])
                           < wrappedBy(hl', hl'.local[a].highlights[j])]_vars

\* A draw on a document that has a span already wrapped two text nodes of
\* its range and skipped the white-space node between them.
C29_Witness ==
    \E a \in Anns :
        /\ hl.local[a].hasHighlights
        /\ Len(hl.local[a].highlights) = 2
        /\ Len(hl.spans) = 3
        /\ hl.thrown = ""
        /\ \E k \in 2..(Len(hl.element) - 1) :
              /\ white(hl.element[k].nodeValue)
              /\ hl.element[k].nodeValue # <<>>
              /\ wrappers(hl, a, k) = 0
              /\ wrappers(hl, a, k - 1) = 1
              /\ wrappers(hl, a, k + 1) = 1


----------------------------------------------------------------------------
(* Claims about the chunks of drawAll, checked under SpecChunk.            *)

\* What a run of loader that started with n annotations attempted leaves in
\* h: the annotations attempted are the first of the list, in order; the run
\* drew chunkSize annotations at most; and a run that did not reject drew
\* chunkSize annotations or all that were left, and waits for the timer
\* exactly when annotations remain.
ChunkDrawn(h, n) ==
    /\ Len(h.batch.attempted) <= Len(h.batch.list)
    /\ h.batch.attempted = SubSeq(h.batch.list, 1, Len(h.batch.attempted))
    /\ Len(h.batch.attempted) - n <= h.chunkSize
    /\ h.batch.status # "rejected" =>
          /\ Len(h.batch.attempted) = Min({n + h.chunkSize, Len(h.batch.list)})
          /\ h.batch.status = IF Len(h.batch.attempted) < Len(h.batch.list)
                              THEN "waiting" ELSE "fulfilled"

----------------------------------------------------------------------------
(* Deleting an annotation while a drawAll batch is suspended: the hooks of  *)
(* ui/main.js on one Highlighter, with the annotations whose deletion was   *)
(* the caller's last word.                                                  *)

\* The annotations of a list
members(list) == { list[i] : i \in 1..Len(list) }

\* annotationsLoaded: highlighter.drawAll(anns), its first chunk
RaceLoaded ==
    /\ Len(hl.spans) < MaxSpans
    /\ hl.batch.status # "waiting"
    /\ \E list \in Lists :
          /\ hl' = drawAll(hl, annotations, list)
          /\ deleted' = deleted \ members(list)
    /\ UNCHANGED <<annotations, hl2, qvars, nvars, avars, viewer, app>>

\* The chunkDelay timer of drawAll fires: loader runs on the rest of the list.
RaceTimer ==
    /\ hl.batch.status = "waiting"
    /\ hl' = loader(hl, annotations)
    /\ UNCHANGED <<annotations, hl2, qvars, nvars, avars, uvars>>

\* annotationDeleted: highlighter.undraw(ann)
RaceDeleted ==
    /\ \E a \in Anns :
          /\ hl' = undraw(hl, a)
          /\ deleted' = deleted \cup {a}
    /\ UNCHANGED <<annotations, hl2, qvars, nvars, avars, viewer, app>>

\* annotationCreated: highlighter.draw(ann)
RaceCreated ==
    /\ Len(hl.spans) < MaxSpans
    /\ \E a \in Anns :
          /\ hl' = draw(hl, annotations, a)
          /\ deleted' = deleted \ {a}
    /\ UNCHANGED <<annotations, hl2, qvars, nvars, avars, viewer, app>>

\* annotationUpdated: highlighter.redraw(ann)
RaceUpdated ==
    /\ Len(hl.spans) < MaxSpans
    /\ \E a \in Anns :
          /\ hl' = redraw(hl, annotations, a)
          /\ deleted' = deleted \ {a}
    /\ UNCHANGED <<annotations, hl2, qvars, nvars, avars, viewer, app>>

RaceNext == RaceLoaded \/ RaceTimer \/ RaceDeleted \/ RaceCreated \/ RaceUpdated

SpecRace == Init /\ [][RaceNext]_vars

----------------------------------------------------------------------------
(* draw on an annotation whose selectors were replaced since it was drawn.  *)

\* The store's return replaces the properties of the annotation object, its
\* target among them: Object.assign(obj, ret).  Here the new selectors match
\* nothing in the document.
Retarget ==
    /\ \E a \in Anns :
          /\ annotations[a] # Orphan
          /\ annotations' = [annotations EXCEPT ![a] = Orphan]
    /\ UNCHANGED <<hl, hl2, qvars, nvars, avars, uvars>>

TargetInit == Init /\ hl.chunkSize = 1

TargetNext == Draw \/ Undraw \/ Retarget

SpecTarget == TargetInit /\ [][TargetNext]_vars

\* C32: a draw(a) that fails to anchor (it rejects with 'unable to anchor')
\* leaves the document's text nodes and spans, and the _local of every
\* annotation (of a: whether it exists, its ranges and its marker list),
\* exactly as they were.
C32_FailedDrawChangesNothing ==
    [][\A a \in Anns :
          hl' = draw(hl, annotations, a) /\ hl'.thrown = "unable to anchor" =>
              /\ hl'.element = hl.element
              /\ hl'.spans = hl.spans
              /\ hl'.local = hl.local]_vars

\* An annotation that was drawn, got selectors that match nothing, and whose
\* draw then failed: its range and marker list are those of the earlier draw.
C32_Witness ==
    \E a \in Anns :
        /\ annotations[a] = Orphan
        /\ hl.thrown = "unable to anchor"
        /\ hl.local[a].exists
        /\ hl.local[a].ranges # <<>>
        /\ listed(hl, a) # {}
        /\ listed(hl, a) \subseteq attached(hl.element)

\* Where the selectors of annotation b resolve in the document of h, as
\* character offsets in root.textContent
resolvedSpan(h, anns, b) == charSpan(h.element, selectorsToRange(anns[b], h.element))

\* C33: no step of the highlighter (draw, undraw, redraw, destroy, drawAll
\* and its timer) changes the root's text content, and the character span
\* that the selectors of any annotation resolve to is the same after the step
\* as before it.
C33_DecoratingMovesNoOther ==
    [][/\ textContentOf(hl'.element) = textContentOf(hl.element)
       /\ hl'.element # hl.element =>
              \A b \in Anns : resolvedSpan(hl', annotations, b) = resolvedSpan(hl, annotations, b)]_vars

\* Both annotations are drawn, one inside the other: the tail of the document
\* carries a span of each, and the text nodes were split for them.
C33_Witness ==
    /\ Len(hl.element) >= 2
    /\ \A a \in Anns : listed(hl, a) # {} /\ listed(hl, a) \subseteq attached(hl.element)
    /\ \E k \in 1..Len(hl.element) : \A a \in Anns : wrappers(hl, a, k) >= 1
    /\ \E k \in 1..Len(hl.element) : wrappers(hl, 2, k) = 0 /\ hl.element[k].nodeValue # <<>>

----------------------------------------------------------------------------
(* Claims about the storage cycle, checked under SpecAdapter.              *)

\* The event of the 'before' hook of a call
beforeEventOf(c) ==
    CASE c.func = "create" -> "beforeAnnotationCreated"
      [] c.func = "update" -> "beforeAnnotationUpdated"
      [] OTHER -> "beforeAnnotationDeleted"

\* A 'before' hook of the call rejected
BeforeRejected == adapter.stage = "rejected" /\ adapter.fulfilled < adapter.hooks

\* C34: in every state of a create, update or delete the hooks run and the
\* store functions called are, in order, a prefix of: the 'before' hooks, the
\* store function, the 'after' hook.  The store function has been called only
\* if every promise of the 'before' hooks has fulfilled, and the 'after' hook
\* has run only if the store call has returned.  If a 'before' hook rejected,
\* the store was not called, the 'after' hook did not run, and the object has
\* the properties it was given.
C34_HookOrder ==
    adapter.stage \notin {"idle", "thrown"} =>
        /\ \E n \in 1..3 :
              adapter.log = SubSeq(<<beforeEventOf(adapter), adapter.func, adapter.after>>, 1, n)
        /\ Len(adapter.log) >= 2 => adapter.fulfilled = adapter.hooks
        /\ Len(adapter.log) = 3 <=> adapter.stage = "done"
        /\ BeforeRejected =>
              /\ adapter.log = <<beforeEventOf(adapter)>>
              /\ adapter.sent = NoObject
              /\ adapter.obj = adapter.arg

\* An update with two 'before' promises went through the store and its
\* 'after' hook has run.
C34_Witness ==
    /\ adapter.func = "update"
    /\ adapter.hooks = 2
    /\ adapter.stage = "done"
    /\ adapter.log = <<"beforeAnnotationUpdated", "update", "annotationUpdated">>

\* A create was rejected by its second 'before' promise after the first had
\* fulfilled, on an object with text and _local.
C34_WitnessRejected ==
    /\ BeforeRejected
    /\ adapter.func = "create"
    /\ adapter.fulfilled = 1
    /\ adapter.arg.local
    /\ adapter.arg.text = "x"

----------------------------------------------------------------------------
(* The Viewer's hide timer: _startHideTimer, _clearHideTimer and the mouse  *)
(* events that call them.                                                   *)

\* Promises _startHideTimer creates while the viewer is observed.
MaxPromises == 3
\* Callbacks chained on one promise.
MaxThens == 2

\* new Promise((resolve, reject) => ...).catch(() => {}): `inner` is the
\* state of the promise that resolve and reject settle.  The promise that
\* _startHideTimer returns is the one catch() made: it is pending while the
\* inner one is, and fulfils when the inner one fulfils or rejects.
HidePromise == [inner |-> "pending", thens |-> 0, ran |-> 0]

\* hideTimerPromise.resolve() / .reject(): a settled promise stays as it is.
settleInner(v, p, how) ==
    IF v.promises[p].inner = "pending" THEN [v EXCEPT !.promises[p].inner = how] ELSE v

\* The promise _startHideTimer returned is settled, fulfilled in either case.
returnedFulfilled(v, p) == v.promises[p].inner # "pending"

\* Viewer._clearHideTimer()
clearHideTimer(v) ==
    [(IF v.hideTimerPromise # 0 THEN settleInner(v, v.hideTimerPromise, "rejected") ELSE v)
        EXCEPT !.hideTimer = 0, !.hideTimerActivity = "null"]

\* _startHideTimer, lines 384-409: a new promise; resolved at once if the
\* viewer is not shown, else a timer is set (the timer is named by its promise).
startTimer(v, activity) ==
    IF ~v.shown
    THEN [v EXCEPT !.promises = Append(@, [HidePromise EXCEPT !.inner = "resolved"]),
                   !.hideTimerPromise = Len(v.promises) + 1,
                   !.hideTimer = 0,
                   !.hideTimerActivity = "null"]
    ELSE [v EXCEPT !.promises = Append(@, HidePromise),
                   !.hideTimerPromise = Len(v.promises) + 1,
                   !.hideTimer = Len(v.promises) + 1,
                   !.hideTimerActivity = IF activity THEN "true" ELSE "false"]

\* Viewer._startHideTimer(activity); the promise it returns is hideTimerPromise
\* of the viewer after the call.
startHideTimer(v, activity) ==
    IF v.hideTimer # 0
    THEN IF ~activity \/ v.hideTimerActivity = "true" THEN v
         ELSE startTimer(clearHideTimer(v), activity)
    ELSE startTimer(v, activity)

\* a timer callback that hides the viewer and leaves the promise pending
hideTimerFired_noResolve(v) == [v EXCEPT !.shown = FALSE, !.hideTimer = 0]

\* The callback of setTimeout in _startHideTimer, lines 401-405.
hideTimerFired(v) ==
    [settleInner([v EXCEPT !.shown = FALSE], v.hideTimerPromise, "resolved") EXCEPT !.hideTimer = 0]

\* Viewer._onHighlightMouseover(event): a callback is chained with then() on
\* the promise _startHideTimer(true) returns.
onHighlightMouseover(v) ==
    IF v.mouseDown THEN v
    ELSE [startHideTimer(v, TRUE) EXCEPT
             !.promises[startHideTimer(v, TRUE).hideTimerPromise].thens = @ + 1]

\* The callback chained in _onHighlightMouseover runs: viewer.load(annotations,
\* position), which shows the viewer.
thenCallback(v, p) ==
    [v EXCEPT !.promises[p].thens = @ - 1, !.promises[p].ran = @ + 1, !.shown = TRUE]

ViewerInit ==
    /\ viewer = NewViewer
    /\ deleted = {}
    /\ app = NewApp
    /\ AppIdle
    /\ NormalizeIdle
    /\ textContent = <<>>
    /\ span = <<0, 0>>
    /\ input = NoPosition
    /\ target = <<>>
    /\ options = NoOptions
    /\ result = Null
    /\ error = ""
    /\ stage = "idle"
    /\ origin = "none"
    /\ shift = 0
    /\ annotations = [a \in Anns |-> [target |-> <<>>]]
    /\ hl = IdleHighlighter
    /\ hl2 = IdleHighlighter

\* mouseover on a highlight
HighlightMouseover ==
    /\ Len(viewer.promises) < MaxPromises
    /\ viewer.hideTimerPromise # 0 => viewer.promises[viewer.hideTimerPromise].thens < MaxThens
    /\ viewer' = onHighlightMouseover(viewer)
    /\ UNCHANGED <<qvars, hvars, nvars, avars, deleted, app>>

\* mouseleave on a highlight, or on the viewer: _startHideTimer()
Mouseleave ==
    /\ Len(viewer.promises) < MaxPromises
    /\ viewer' = startHideTimer(viewer, FALSE)
    /\ UNCHANGED <<qvars, hvars, nvars, avars, deleted, app>>

\* mouseenter on the viewer: _clearHideTimer()
ViewerMouseenter ==
    /\ viewer.shown
    /\ viewer' = clearHideTimer(viewer)
    /\ UNCHANGED <<qvars, hvars, nvars, avars, deleted, app>>

\* mousedown / mouseup of button 1 on the body
MouseButton ==
    /\ viewer' = [viewer EXCEPT !.mouseDown = ~@]
    /\ UNCHANGED <<qvars, hvars, nvars, avars, deleted, app>>

\* click on the edit or delete control of the viewer: this.hide()
ControlClick ==
    /\ viewer.shown
    /\ viewer' = [viewer EXCEPT !.shown = FALSE]
    /\ UNCHANGED <<qvars, hvars, nvars, avars, deleted, app>>

\* The hide timer fires.
HideTimerFires ==
    /\ viewer.hideTimer # 0
    /\ viewer' = hideTimerFired(viewer)
    /\ UNCHANGED <<qvars, hvars, nvars, avars, deleted, app>>

\* A callback chained on a promise that has fulfilled is run.
ThenCallback ==
    /\ \E p \in 1..Len(viewer.promises) :
          /\ returnedFulfilled(viewer, p)
          /\ viewer.promises[p].thens > 0
          /\ viewer' = thenCallback(viewer, p)
    /\ UNCHANGED <<qvars, hvars, nvars, avars, deleted, app>>

ViewerNext ==
    \/ HighlightMouseover \/ Mouseleave \/ ViewerMouseenter \/ MouseButton
    \/ ControlClick \/ HideTimerFires \/ ThenCallback

SpecViewer == ViewerInit /\ [][ViewerNext]_vars

\* The browser runs the callback of a timer that is set and not cleared.
SpecViewerFair == ViewerInit /\ [][ViewerNext]_vars /\ WF_vars(HideTimerFires)

\* A promise of the hide timer that _clearHideTimer has rejected
Cleared(p) == p <= Len(viewer.promises) /\ viewer.promises[p].inner = "rejected"

\* C36: once _clearHideTimer has rejected the promise of an earlier
\* _startHideTimer, no callback chained with then() on that promise runs, and
\* no timer is left to hide the viewer.  (As the claim states it; the promise
\* returned is the one catch() made, which fulfils when the timer's promise is
\* rejected, and the callback of _onHighlightMouseover runs.)
C36_ClearCancelsCallbacks ==
    [][/\ \A p \in 1..Len(viewer.promises) :
             Cleared(p) => viewer'.promises[p].ran = viewer.promises[p].ran
       /\ viewer' = clearHideTimer(viewer) => viewer'.hideTimer = 0]_vars

\* The timer of promise p is set: the viewer was shown when _startHideTimer
\* made p, and the timer was not cleared since.
TimerSet(p) == viewer.hideTimer = p

\* The resolve function of promise p has been called
Resolved(p) == p <= Len(viewer.promises) /\ viewer.promises[p].inner = "resolved"

\* C37: a promise that _startHideTimer makes while the viewer is hidden is
\* resolved within the call, one made while it is shown is pending after the
\* call; a step that resolves a pending promise hides the viewer.  A timer
\* that is set leads to the viewer hidden and the promise resolved, unless
\* the timer is cleared.
C37_HideTimerResolves ==
    /\ [][\A p \in 1..Len(viewer'.promises) :
             /\ p > Len(viewer.promises) =>
                   /\ viewer.shown <=> viewer'.promises[p].inner = "pending"
                   /\ ~viewer.shown <=> viewer'.promises[p].inner = "resolved"
             /\ p <= Len(viewer.promises)
                /\ viewer.promises[p].inner = "pending"
                /\ viewer'.promises[p].inner = "resolved" =>
                   /\ ~viewer'.shown
                   /\ viewer'.hideTimer = 0]_vars
    /\ \A p \in 1..MaxPromises :
          TimerSet(p) ~> (Cleared(p) \/ (Resolved(p) /\ ~viewer.shown))

\* The inactivity timer has fired: the viewer is hidden, the promise of the
\* timer is resolved, and the viewer had been shown by an earlier callback.
C37_Witness ==
    /\ ~viewer.shown
    /\ viewer.hideTimer = 0
    /\ viewer.hideTimerActivity = "false"
    /\ Resolved(viewer.hideTimerPromise)
    /\ viewer.promises[1].ran = 1

----------------------------------------------------------------------------
(* The App: include, start, destroy.                                       *)

\* Modules an application includes besides the three default ones.
MaxModules == 3
\* Calls of start() and destroy() on one App.
MaxCalls == 4

\* App.include(module, options)
include(a, mod) == [a EXCEPT !.modules = Append(@, mod)]

\* runHook('start', [this]): the 'start' hook of every module that has one
runStart(modules) ==
    [i \in 1..Len(modules) |->
        IF modules[i].hasStart THEN [modules[i] EXCEPT !.starts = @ + 1] ELSE modules[i]]

\* runHook('destroy'): the 'destroy' hook of every module that has one
runDestroy(modules) ==
    [i \in 1..Len(modules) |->
        IF modules[i].hasDestroy THEN [modules[i] EXCEPT !.destroys = @ + 1] ELSE modules[i]]

\* start without the test of _started
start_noGuard(a) ==
    [a EXCEPT !.started = TRUE,
              !.authz = @ + 1, !.ident = @ + 1, !.annotations = @ + 1,
              !.modules = runStart(a.modules),
              !.calls = @ + 1, !.returned = "promise"]

\* App.start()
start(a) ==
    IF a.started THEN [a EXCEPT !.calls = @ + 1, !.returned = "undefined"]
    ELSE [a EXCEPT !.started = TRUE,
                   !.authz = @ + 1, !.ident = @ + 1, !.annotations = @ + 1,
                   !.modules = runStart(a.modules),
                   !.calls = @ + 1, !.returned = "promise"]

\* App.destroy()
destroyApp(a) == [a EXCEPT !.modules = runDestroy(a.modules), !.calls = @ + 1]

AppInit ==
    /\ app = NewApp
    /\ viewer = NewViewer
    /\ deleted = {}
    /\ AppIdle
    /\ NormalizeIdle
    /\ textContent = <<>>
    /\ span = <<0, 0>>
    /\ input = NoPosition
    /\ target = <<>>
    /\ options = NoOptions
    /\ result = Null
    /\ error = ""
    /\ stage = "idle"
    /\ origin = "none"
    /\ shift = 0
    /\ annotations = [a \in Anns |-> [target |-> <<>>]]
    /\ hl = IdleHighlighter
    /\ hl2 = IdleHighlighter

\* app.include(module)
Include ==
    /\ Len(app.modules) < 3 + MaxModules
    /\ \E hasStart \in BOOLEAN, hasDestroy \in BOOLEAN :
          app' = include(app, Module(hasStart, hasDestroy))
    /\ UNCHANGED <<qvars, hvars, nvars, avars, deleted, viewer>>

\* app.start()
Start ==
    /\ app.calls < MaxCalls
    /\ app' = start(app)
    /\ UNCHANGED <<qvars, hvars, nvars, avars, deleted, viewer>>

\* app.destroy()
DestroyApp ==
    /\ app.calls < MaxCalls
    /\ app' = destroyApp(app)
    /\ UNCHANGED <<qvars, hvars, nvars, avars, deleted, viewer>>

AppNext == Include \/ Start \/ DestroyApp

SpecApp == AppInit /\ [][AppNext]_vars

\* C38: over any sequence of include(), start() and destroy() calls the
\* 'start' hook of each module has run at most once, and app.authz, app.ident
\* and app.annotations (the StorageAdapter) have been assigned at most once.
C38_StartIdempotent ==
    /\ \A i \in 1..Len(app.modules) : app.modules[i].starts <= 1
    /\ app.authz <= 1
    /\ app.ident <= 1
    /\ app.annotations <= 1

\* start() was called again after the app had started and been destroyed: a
\* module with a 'start' hook has run it once, a module included after the
\* first start has not, and the last call returned undefined.
C38_Witness ==
    /\ app.started
    /\ app.returned = "undefined"
    /\ app.annotations = 1
    /\ \E i, j \in 1..Len(app.modules) :
          /\ i < j
          /\ app.modules[i].starts = 1
          /\ app.modules[i].destroys = 1
          /\ app.modules[j].hasStart
          /\ app.modules[j].starts = 0

====
